---- MODULE Spec2Model ----
(***************************************************************************)
(* A model of the mac-profile-sync sync engine: two devices, each with a   *)
(* filesystem, a recursive watcher with debounce, a baseline state store,  *)
(* a conflict detector and the engine's message handlers, connected by     *)
(* framed peer sessions.                                                   *)
(*                                                                         *)
(* Spec      two engines exchanging messages over their sessions.          *)
(* SpecOpen  one engine (Alpha) whose sessions deliver any message a peer  *)
(*           can put on the wire.                                          *)
(*                                                                         *)
(* Abstractions: a file is its content, modification time and whether it   *)
(* can be opened for reading (permission bits are otherwise left out);     *)
(* directories exist implicitly as the parents of files; time is a logical *)
(* clock; SHA-256 is an injective function of the content.                 *)
(***************************************************************************)
EXTENDS Integers, Sequences, FiniteSets, TLC

VARIABLES
    cfg,         \* per device: sync.direction, sync.conflict_resolution
    now,         \* logical wall clock
    fs,          \* per device: absolute path -> file
    store,       \* per device: <<folderPath, relPath>> -> FileState (baseline)
    conflicts,   \* per device: conflict id -> Conflict (the open set)
    activities,  \* per device: activity log, newest first
    pending,     \* per device: watcher debounce table, absolute path -> FileEvent
    evq,         \* per device: watcher output channel
    open,        \* the sessions that are established
    chan,        \* per session and receiving device: frames in flight, in order
    syncq,       \* per device: SyncFolder goroutines started and not yet run
    budget,      \* what is left of the bounded environment: edits, injections
    userlog,     \* history: the user's operations, in order
    last,        \* history: the frame the step just taken handled, if any
    debounceTimer, \* the watcher's timer: its deadline, and callbacks started but not run
    wlog,        \* history: raw notifications arrived and FileEvents emitted, with times
    stateDir,    \* the state directory on disk: file name -> JSON document
    restored,    \* the folders of a StateStore created empty and loaded from stateDir
    peers,       \* the discovery's registry: peer id -> Peer
    dlog,        \* history: the onPeerLost calls, and the health ticks handled
    net,         \* the connections made, and the server's and the client's tables
    locks,       \* the readers/writer locks: who holds them, and where each goroutine is
    down,        \* runDaemon: its place in the shutdown, its sessions, the store, the save
    heap,        \* the state store as pointers: Files map, FileState objects, values callers hold
    conf,        \* the Config in memory (Folders) and the folders of config.yaml
    ring,        \* the activity log at its real capacity, and the last result of GetActivities
    rl,          \* the read loops: handlers set or not, frames on the wire, Pongs sent, messages delivered
    hs,          \* the Hellos received, what each session was sent, the folder syncs started
    rd,          \* the dials: peers registered, the client's session to each, dials made
    cm,          \* accesses to ConflictDetector.conflicts
    life         \* the engine's lifecycle: context, channels, goroutines

vars == <<cfg, now, fs, store, conflicts, activities, pending, evq, open, chan,
          syncq, budget, userlog, last, debounceTimer, wlog, stateDir, restored,
          peers, dlog, net, locks, down, heap, conf, ring, rl, hs, rd, cm, life>>

\* The variables of the timed watcher.
wvars == <<debounceTimer, wlog>>

\* The variables of the state store's persistence.
pvars == <<stateDir, restored>>

\* The variables of the discovery.
dvars == <<peers, dlog>>

\* The variables outside the engine and its watcher's channel.
\* The variables added for the components below.
xvars == <<net, locks, down, heap, conf, ring, rl, hs, rd, cm, life>>

ovars == <<wvars, pvars, dvars, xvars>>

----------------------------------------------------------------------------
(* Bounds of the model *)

MaxTime == 2
MaxQueue == 2
MaxLog == 2
MaxEdits == 1
MaxInject == 1
MaxUserOps == 1
MaxTicks == 4
MaxArrivals == 3

----------------------------------------------------------------------------
(* Program constants *)

MaxActivities == 100
EventChanCap == 100

----------------------------------------------------------------------------
(* Generic helpers on functions with a changing domain *)

Put(f, k, v) == [x \in (DOMAIN f) \cup {k} |-> IF x = k THEN v ELSE f[x]]

Del(f, k) == [x \in (DOMAIN f) \ {k} |-> f[x]]

EmptyMap == [x \in {} |-> x]

Last(s) == s[Len(s)]

IsPrefix(p, s) == Len(p) <= Len(s) /\ SubSeq(s, 1, Len(p)) = p

----------------------------------------------------------------------------
(* Devices, folders and paths *)

Nodes == {"Alpha", "Beta"}

Peer(n) == IF n = "Alpha" THEN "Beta" ELSE "Alpha"

\* A path component: stem, conflict tags appended to the stem, extension
\* (the extension is the suffix from the final dot, as filepath.Ext gives it).
Name(stem, ext) == [stem |-> stem, conf |-> <<>>, ext |-> ext]

\* The parent directory component.
DotDot == Name("..", "")

RECURSIVE CleanFrom(_, _)
\* filepath.Clean of a rooted path: a ".." component removes the component
\* before it, and is dropped at the root.
CleanFrom(done, rest) ==
    IF rest = <<>> THEN done
    ELSE IF Head(rest) = DotDot
    THEN CleanFrom(IF done = <<>> THEN done ELSE SubSeq(done, 1, Len(done) - 1), Tail(rest))
    ELSE CleanFrom(Append(done, Head(rest)), Tail(rest))

Clean(path) ==
    IF \A i \in 1..Len(path) : path[i] # DotDot THEN path ELSE CleanFrom(<<>>, path)

\* A path is a sequence of components; filepath.Join joins and cleans.
Join(folderPath, relPath) == Clean(folderPath \o relPath)

Base(path) == Last(path)

getFolderName(folderPath) == Base(folderPath)

\* cfg.Folders of a device: one enabled folder with base name Shared.
Folders(n) ==
    IF n = "Alpha"
    THEN << [path |-> <<Name("Users", ""), Name("a", ""), Name("Shared", "")>>, enabled |-> TRUE] >>
    ELSE << [path |-> <<Name("Users", ""), Name("b", ""), Name("Shared", "")>>, enabled |-> TRUE] >>

FolderOf(n) == Folders(n)[1].path

NoFolder == <<>>

findLocalFolderByName(n, folderName) ==
    LET hits == {i \in 1..Len(Folders(n)) :
                    Folders(n)[i].enabled /\ Base(Folders(n)[i].path) = folderName}
    IN IF hits = {} THEN NoFolder
       ELSE Folders(n)[CHOOSE i \in hits : \A j \in hits : i <= j].path

\* The relative paths of the model.
PathA == << Name("a", ".txt") >>
PathTmp == << Name("foo", ".tmp") >>
PathNm == << Name("node_modules", ""), Name("x", ".js") >>
PathPriv == << Name("priv", ""), Name("s", ".txt") >>

AllPaths == {PathA, PathTmp, PathNm, PathPriv}

----------------------------------------------------------------------------
(* Configuration *)

Directions == {"bidirectional", "send_only", "receive_only"}

Strategies == {"newest_wins", "keep_both", "prompt"}

CanSend(n) == cfg[n].direction \in {"bidirectional", "send_only"}

\* A CanReceive that lets every direction receive.
CanReceive_Always(n) == TRUE

CanReceive(n) == cfg[n].direction \in {"bidirectional", "receive_only"}

GetConflictStrategy(n) == cfg[n].strategy

DeviceName(n) == n

\* sync.ignore_patterns: a literal name, or "*" followed by an extension.
IgnorePatterns == { [stem |-> "*", ext |-> ".tmp"],
                    [stem |-> "node_modules", ext |-> ""] }

\* sync.exclude_dirs of a device: the folder's priv directory.
ExcludeDirs(n) == { Join(FolderOf(n), << Name("priv", "") >>) }

\* filepath.Match for the two pattern shapes of the ignore list.
Match(pattern, base) ==
    IF pattern.stem = "*"
    THEN base.ext = pattern.ext
    ELSE base.stem = pattern.stem /\ base.conf = <<>> /\ base.ext = pattern.ext

\* strings.HasPrefix on paths: the model holds no name that merely extends
\* the last component of an excluded directory, so it is a component prefix.
HasPrefix(path, prefix) == IsPrefix(prefix, path)

ShouldIgnore(n, path) ==
    \/ \E pattern \in IgnorePatterns : Match(pattern, Base(path))
    \/ \E excludeDir \in ExcludeDirs(n) : HasPrefix(path, excludeDir)

----------------------------------------------------------------------------
(* fileutil *)

\* File contents are byte sequences.
Empty == <<>>
V0 == <<48>>
A1 == <<65>>
B1 == <<66>>

Contents == {Empty, V0, A1, B1}

File(content, mtime) == [content |-> content, mtime |-> mtime, readable |-> TRUE]

NoHash == <<>>

\* SHA-256 of a content, hex encoded.
Sha256(content) == <<"sha256", content>>

\* HashFile: fails when the file cannot be opened.
HashFile(fsn, path) ==
    IF path \in DOMAIN fsn /\ fsn[path].readable
    THEN [ok |-> TRUE, hash |-> Sha256(fsn[path].content)]
    ELSE [ok |-> FALSE, hash |-> NoHash]

\* filepath.Rel for a path at or below basePath.
Rel(basePath, path) ==
    IF IsPrefix(basePath, path) THEN SubSeq(path, Len(basePath) + 1, Len(path)) ELSE path

\* GetFileInfo: stat, then hash only a file of positive size.
GetFileInfo(fsn, path, basePath) ==
    IF path \notin DOMAIN fsn THEN [ok |-> FALSE]
    ELSE LET size == Len(fsn[path].content)
             h == HashFile(fsn, path)
         IN IF size > 0 /\ ~h.ok THEN [ok |-> FALSE]
            ELSE [ok |-> TRUE,
                  relPath |-> Rel(basePath, path),
                  size |-> size,
                  modTime |-> fsn[path].mtime,
                  hash |-> IF size > 0 THEN h.hash ELSE NoHash]

\* os.ReadFile
ReadFile(fsn, path) ==
    IF path \in DOMAIN fsn /\ fsn[path].readable
    THEN [ok |-> TRUE, data |-> fsn[path].content]
    ELSE [ok |-> FALSE, data |-> Empty]

\* GenerateConflictName: name_device_conflict_timestamp.ext in the same directory.
GenerateConflictName(originalPath, deviceName, t) ==
    LET base == Base(originalPath)
        newName == [base EXCEPT !.conf = Append(@, <<deviceName, t>>)]
    IN Append(SubSeq(originalPath, 1, Len(originalPath) - 1), newName)

----------------------------------------------------------------------------
(* Watcher *)

EventCreate == "create"
EventModify == "modify"
EventDelete == "delete"
EventRename == "rename"

WatchedFolders(n) == {Folders(n)[i].path : i \in {j \in 1..Len(Folders(n)) : Folders(n)[j].enabled}}

\* AddFolder walks the tree and places a watch on every directory that is
\* neither ignored nor below an ignored directory.
WatchedDir(n, dir) ==
    \E folder \in WatchedFolders(n) :
        /\ IsPrefix(folder, dir)
        /\ \A k \in Len(folder)..Len(dir) : ~ShouldIgnore(n, SubSeq(dir, 1, k))

StartsWithDot(name) == name.stem = "" /\ name.conf = <<>>

resolvePaths(n, path) ==
    LET ok == {folder \in WatchedFolders(n) :
                  /\ IsPrefix(folder, path)
                  /\ Len(path) > Len(folder)
                  /\ ~StartsWithDot(path[Len(folder) + 1])}
    IN IF ok = {} THEN [folderPath |-> NoFolder, relPath |-> <<>>]
       ELSE LET folder == CHOOSE f \in ok : TRUE
            IN [folderPath |-> folder, relPath |-> Rel(folder, path)]

NoTimer == -1

\* No timer armed, no callback waiting, nothing arrived or emitted yet.
WatcherIdle ==
    /\ debounceTimer = [deadline |-> NoTimer, fired |-> 0]
    /\ wlog = [arrivals |-> <<>>, emitted |-> <<>>, flushes |-> 0]

\* Nothing saved yet, nothing loaded.
StoreUnsaved ==
    /\ stateDir = EmptyMap
    /\ restored = EmptyMap

\* NewDiscovery: no peers; no callback called, no tick handled.
DiscoveryIdle ==
    /\ peers = EmptyMap
    /\ dlog = [lost |-> <<>>, ticks |-> 0]

\* NewServer, NewClient: no connection yet.
NetworkIdle == net = [conns |-> <<>>, client |-> EmptyMap, server |-> {}, calls |-> EmptyMap]

\* No lock held, every goroutine before its call.
LocksIdle ==
    locks = [held |-> [mu \in {"Server.connMu", "Client.connMu", "Discovery.mu", "StateStore.mu"} |-> {}],
             pc |-> [t \in {"broadcast", "clientsend", "health", "save", "update"} |->
                       [at |-> "idle", left |-> 0]]]

\* down.saved before the state was saved; after, it holds the table written.
NoSave == <<>>

MaxDaemonHash == 2

\* runDaemon waiting for the interrupt: no session, no record.
DaemonRunning ==
    down = [pc |-> "running",
            sessions |-> [s \in {"in1", "in2", "out1"} |-> "none"],
            table |-> [p \in {"a.txt", "b.txt"} |-> 0],
            saved |-> NoSave]

MaxObjects == 3
MaxHandles == 2

\* A new StateStore after InitFolder: the folder's Files map is empty, no
\* FileState allocated, no value handed to a caller.
HeapIdle == heap = [files |-> EmptyMap, objs |-> <<>>, handles |-> <<>>]

MaxFolders == 3

\* The configuration createDefaultConfig writes: no folder, in memory or on file.
ConfigEmpty == conf = [folders |-> <<>>, file |-> <<>>]

\* NewEngine: no activity, no call of GetActivities answered.
RingEmpty == ring = [log |-> <<>>, past |-> 0, added |-> 0, result |-> <<>>]

MaxReadFrames == 2

\* NewServer, NewClient: no handler set, nothing read on either session.
ReadLoopsIdle ==
    rl = [handlers |-> FALSE,
          wire |-> [s \in {"inbound", "outbound"} |-> <<>>],
          arrived |-> [s \in {"inbound", "outbound"} |-> <<>>],
          pongs |-> [s \in {"inbound", "outbound"} |-> 0],
          delivered |-> [s \in {"inbound", "outbound"} |-> <<>>],
          handling |-> [s \in {"inbound", "outbound"} |-> FALSE]]

MaxHellos == 2

\* No Hello received: nothing sent on either session, no folder sync started.
HelloIdle ==
    hs = [hellos |-> <<>>,
          out |-> [s \in {"inbound", "outbound"} |-> <<>>],
          started |-> <<>>,
          running |-> {}]

MaxDials == 2

\* Before Discovery.Start: no peer registered, no dial made.
RedialIdle ==
    rd = [registered |-> [p \in {"discovered", "manual"} |-> FALSE],
          conn |-> [p \in {"discovered", "manual"} |-> "none"],
          down |-> [p \in {"discovered", "manual"} |-> FALSE],
          dials |-> [p \in {"discovered", "manual"} |-> 0]]

MaxMapCalls == 2

\* ConflictDetector.conflicts after NewConflictDetector: an empty map that no
\* goroutine is reading or writing.
ConflictMapIdle ==
    cm = [at |-> [g \in {"inbound", "outbound", "ui"} |-> <<"idle">>],
          ids |-> {},
          calls |-> [g \in {"inbound", "outbound", "ui"} |-> 0],
          crashed |-> FALSE]

MaxToggles == 2

MaxFsEvents == 2

\* After NewEngine and NewWatcher: the context is live, w.done and the
\* fsnotify watcher are open, nothing is watched, no goroutine runs.
EngineNew ==
    life = [running |-> FALSE, ctx |-> "live", done |-> "open", fsw |-> "open",
            folders |-> FALSE, watches |-> FALSE, wloop |-> 0, eloop |-> 0,
            fsq |-> 0, events |-> 0, delivered |-> 0, writes |-> 0,
            stopping |-> FALSE, toggles |-> 0, exiting |-> FALSE, panicked |-> FALSE]

ExtrasIdle == NetworkIdle /\ LocksIdle /\ DaemonRunning /\ HeapIdle /\ ConfigEmpty /\ RingEmpty /\ ReadLoopsIdle /\ HelloIdle /\ RedialIdle /\ ConflictMapIdle /\ EngineNew

\* A debounceEvent that keeps the entry a path already has.
debounceEvent_KeepFirst(pend, event) ==
    IF event.path \in DOMAIN pend THEN pend ELSE Put(pend, event.path, event)

\* debounceEvent, on the pending table: the event replaces the entry of its path.
debounceEvent(pend, event) == Put(pend, event.path, event)

\* handleFsEvent followed by debounceEvent: filter, classify, and overwrite
\* the pending entry of the path.  op is the fsnotify operation.
handleFsEvent(n, pend, path, op) ==
    IF ShouldIgnore(n, path) THEN pend
    ELSE LET rp == resolvePaths(n, path)
         IN IF rp.folderPath = NoFolder THEN pend
            ELSE IF op \notin {"Create", "Write", "Remove", "Rename"} THEN pend
            ELSE debounceEvent(pend,
                     [type |-> CASE op = "Create" -> EventCreate
                                 [] op = "Write" -> EventModify
                                 [] op = "Remove" -> EventDelete
                                 [] OTHER -> EventRename,
                      path |-> path,
                      relPath |-> rp.relPath,
                      folderPath |-> rp.folderPath])

\* The kernel reports an operation only for entries of watched directories.
Notify(n, pend, path, op) ==
    IF WatchedDir(n, SubSeq(path, 1, Len(path) - 1))
    THEN handleFsEvent(n, pend, path, op)
    ELSE pend

\* os.WriteFile: creates the file if absent (Create), then writes (Write).
NotifyWrite(n, pend, path, existed) ==
    IF existed THEN Notify(n, pend, path, "Write")
    ELSE Notify(n, Notify(n, pend, path, "Create"), path, "Write")

----------------------------------------------------------------------------
(* State store: folder path -> FolderState *)

FileState(relPath, hash, size, modTime, syncedFrom) ==
    [relPath |-> relPath, hash |-> hash, size |-> size, modTime |-> modTime,
     syncedFrom |-> syncedFrom]

FolderState(files, updatedAt) == [files |-> files, updatedAt |-> updatedAt]

InitFolder(st, folderPath, t) ==
    IF folderPath \in DOMAIN st THEN st
    ELSE Put(st, folderPath, FolderState(EmptyMap, t))

GetFileState(st, folderPath, relPath) ==
    IF folderPath \in DOMAIN st /\ relPath \in DOMAIN st[folderPath].files
    THEN [ok |-> TRUE, state |-> st[folderPath].files[relPath]]
    ELSE [ok |-> FALSE]

UpdateFileState(st, folderPath, state, t) ==
    LET files == IF folderPath \in DOMAIN st THEN st[folderPath].files ELSE EmptyMap
    IN Put(st, folderPath, FolderState(Put(files, state.relPath, state), t))

RemoveFileState(st, folderPath, relPath, t) ==
    IF folderPath \notin DOMAIN st THEN st
    ELSE Put(st, folderPath, FolderState(Del(st[folderPath].files, relPath), t))

----------------------------------------------------------------------------
(* Conflict detector *)

ResolutionKeepLocal == "keep_local"
ResolutionKeepRemote == "keep_remote"
ResolutionKeepBoth == "keep_both"
ResolutionSkip == "skip"

ConflictFile(size, modTime, hash, deviceName) ==
    [size |-> size, modTime |-> modTime, hash |-> hash, deviceName |-> deviceName]

ConflictID(folderPath, relPath) == <<folderPath, relPath>>

\* A DetectConflict that needs a baseline to see a conflict.
DetectConflict_BaselineOnly(fsn, st, confl, folderPath, relPath, remoteFile) ==
    LET fullPath == Join(folderPath, relPath)
        h == HashFile(fsn, fullPath)
        known == GetFileState(st, folderPath, relPath)
        conflict == [id |-> ConflictID(folderPath, relPath),
                     folderPath |-> folderPath,
                     relPath |-> relPath,
                     localFile |-> ConflictFile(Len(fsn[fullPath].content),
                                                fsn[fullPath].mtime, h.hash, ""),
                     remoteFile |-> remoteFile]
        none == [found |-> FALSE, conflicts |-> confl]
        some == [found |-> TRUE, conflict |-> conflict,
                 conflicts |-> Put(confl, conflict.id, conflict)]
    IN IF fullPath \notin DOMAIN fsn THEN none
       ELSE IF ~h.ok THEN none
       ELSE IF h.hash = remoteFile.hash THEN none
       ELSE IF ~known.ok THEN none
       ELSE IF h.hash # known.state.hash /\ remoteFile.hash # known.state.hash THEN some
       ELSE none

\* DetectConflict: the conflict found, if any, and the open set afterwards.
DetectConflict(fsn, st, confl, folderPath, relPath, remoteFile) ==
    LET fullPath == Join(folderPath, relPath)
        h == HashFile(fsn, fullPath)
        known == GetFileState(st, folderPath, relPath)
        conflict == [id |-> ConflictID(folderPath, relPath),
                     folderPath |-> folderPath,
                     relPath |-> relPath,
                     localFile |-> ConflictFile(Len(fsn[fullPath].content),
                                                fsn[fullPath].mtime, h.hash, ""),
                     remoteFile |-> remoteFile]
        none == [found |-> FALSE, conflicts |-> confl]
        some == [found |-> TRUE, conflict |-> conflict,
                 conflicts |-> Put(confl, conflict.id, conflict)]
    IN IF fullPath \notin DOMAIN fsn THEN none
       ELSE IF ~h.ok THEN none
       ELSE IF h.hash = remoteFile.hash THEN none
       ELSE IF ~known.ok THEN some
       ELSE IF h.hash # known.state.hash /\ remoteFile.hash # known.state.hash THEN some
       ELSE none

\* ResolveConflict on a node-local state w = [fs, pending, conflicts]:
\* KeepBoth renames the local file to its conflict name; every resolution
\* removes the conflict from the open set.
ResolveConflict(n, w, conflict, resolution, t) ==
    LET fullPath == Join(conflict.folderPath, conflict.relPath)
        conflictPath == GenerateConflictName(fullPath, DeviceName(n), t)
    IN IF resolution = ResolutionKeepBoth
       THEN IF fullPath \notin DOMAIN w.fs
            THEN [err |-> TRUE, w |-> w]
            ELSE [err |-> FALSE,
                  w |-> [fs |-> Put(Del(w.fs, fullPath), conflictPath, w.fs[fullPath]),
                         pending |-> Notify(n, Notify(n, w.pending, fullPath, "Rename"),
                                            conflictPath, "Create"),
                         conflicts |-> Del(w.conflicts, conflict.id)]]
       ELSE [err |-> FALSE, w |-> [w EXCEPT !.conflicts = Del(@, conflict.id)]]

After(t1, t2) == t1 > t2

\* AutoResolve: the resolution, whether resolving failed, and the state after.
AutoResolve(n, w, conflict, t) ==
    LET strategy == GetConflictStrategy(n)
        res == CASE strategy = "newest_wins" ->
                      IF After(conflict.localFile.modTime, conflict.remoteFile.modTime)
                      THEN ResolutionKeepLocal ELSE ResolutionKeepRemote
                 [] strategy = "keep_both" -> ResolutionKeepBoth
                 [] strategy = "prompt" -> ResolutionSkip
                 [] OTHER -> ResolutionKeepLocal
    IN IF strategy = "prompt"
       THEN [resolution |-> res, err |-> FALSE, w |-> w]
       ELSE LET r == ResolveConflict(n, w, conflict, res, t)
            IN [resolution |-> res, err |-> r.err, w |-> r.w]

----------------------------------------------------------------------------
(* Wire messages *)

Sessions == Nodes    \* a session is named by the device that dialed it

HelloMessage(deviceName) == [type |-> "Hello", deviceName |-> deviceName]

HelloAckMessage(deviceName) ==
    [type |-> "HelloAck", deviceName |-> deviceName, accepted |-> TRUE]

FileInfoEntry(relPath, size, modTime, hash) ==
    [relPath |-> relPath, size |-> size, modTime |-> modTime, hash |-> hash]

FileListMessage(folderPath, files) ==
    [type |-> "FileList", folderPath |-> folderPath,
     folderName |-> getFolderName(folderPath), files |-> files]

FileRequestMessage(folderPath, folderName, relPath) ==
    [type |-> "FileRequest", folderPath |-> folderPath, folderName |-> folderName,
     relPath |-> relPath]

FileDataMessage(folderPath, relPath, size, modTime, hash, data) ==
    [type |-> "FileData", folderPath |-> folderPath,
     folderName |-> getFolderName(folderPath), relPath |-> relPath, size |-> size,
     modTime |-> modTime, hash |-> hash, data |-> data]

FileDeleteMessage(folderPath, relPath) ==
    [type |-> "FileDelete", folderPath |-> folderPath,
     folderName |-> getFolderName(folderPath), relPath |-> relPath]

\* Connection.DeviceName / ClientConnection.DeviceName: declared, never assigned.
ConnDeviceName(n, s) == ""

\* Connection.Send on session s from device n.
Send(ch, n, s, msg) == [ch EXCEPT ![s][Peer(n)] = Append(@, msg)]

RECURSIVE SendAll(_, _, _, _)
SendAll(ch, n, s, msgs) ==
    IF msgs = <<>> THEN ch ELSE SendAll(Send(ch, n, s, Head(msgs)), n, s, Tail(msgs))

\* Server.BroadcastPayload followed by the loop over Client.GetConnections:
\* one frame on every established session of the device.
Broadcast(ch, n, msg) ==
    [s \in Sessions |-> IF open[s] THEN [ch[s] EXCEPT ![Peer(n)] = Append(@, msg)] ELSE ch[s]]

----------------------------------------------------------------------------
(* Engine: activity log, scan *)

SyncActivity(type, relPath, peerName) ==
    [type |-> type, relPath |-> relPath, peerName |-> peerName]

\* An addActivity that never trims.
addActivity_NoTrim(log, activity) == <<activity>> \o log

addActivity(log, activity) ==
    LET l == <<activity>> \o log
    IN IF Len(l) > MaxActivities THEN SubSeq(l, 1, MaxActivities) ELSE l

\* The order in which filepath.Walk visits the names of the model.
WalkRank(relPath) ==
    LET first == relPath[1]
        r == CASE first.stem = "a" -> 1
               [] first.stem = "foo" -> 2
               [] first.stem = "node_modules" -> 3
               [] first.stem = "priv" -> 4
               [] OTHER -> 5
    IN 10 * r + Len(first.conf)

WalkOrder(S) ==
    CHOOSE seq \in [1..Cardinality(S) -> S] :
        /\ \A i, j \in 1..Cardinality(S) : i < j => seq[i] # seq[j]
        /\ \A i, j \in 1..Cardinality(S) : i < j => WalkRank(seq[i]) <= WalkRank(seq[j])

\* scanFolder: every file below the folder that is not ignored, not below an
\* ignored directory, and whose GetFileInfo succeeds.
scanFolder(n, fsn, folderPath) ==
    LET rels == {Rel(folderPath, p) : p \in {q \in DOMAIN fsn :
                    /\ IsPrefix(folderPath, q) /\ Len(q) > Len(folderPath)
                    /\ \A k \in Len(folderPath)..Len(q) : ~ShouldIgnore(n, SubSeq(q, 1, k))
                    /\ GetFileInfo(fsn, q, folderPath).ok}}
        order == WalkOrder(rels)
    IN [i \in 1..Len(order) |->
          LET fi == GetFileInfo(fsn, Join(folderPath, order[i]), folderPath)
          IN FileInfoEntry(fi.relPath, fi.size, fi.modTime, fi.hash)]

----------------------------------------------------------------------------
(* Engine: handlers as functions of the device's state *)

\* The loop of handleFileList over the entries of a FileList, from entry i.
\* st = [w |-> [fs, pending, conflicts], out |-> the FileRequests sent so far].
RECURSIVE FileListLoop(_, _, _, _, _, _, _, _)
FileListLoop(n, stn, fileList, localFolderPath, peerName, t, i, st) ==
    IF i > Len(fileList.files) THEN st
    ELSE
      LET remoteFile == fileList.files[i]
          localPath == Join(localFolderPath, remoteFile.relPath)
          req == FileRequestMessage(fileList.folderPath, fileList.folderName,
                                    remoteFile.relPath)
          request == [st EXCEPT !.out = Append(@, req)]
          next(s) == FileListLoop(n, stn, fileList, localFolderPath, peerName, t, i + 1, s)
      IN IF localPath \notin DOMAIN st.w.fs THEN next(request)
         ELSE
           LET localHash == HashFile(st.w.fs, localPath).hash
           IN IF localHash = remoteFile.hash THEN next(st)
              ELSE
                LET d == DetectConflict(st.w.fs, stn, st.w.conflicts, localFolderPath,
                                        remoteFile.relPath,
                                        ConflictFile(remoteFile.size, remoteFile.modTime,
                                                     remoteFile.hash, peerName))
                IN IF d.found
                   THEN LET a == AutoResolve(n, [st.w EXCEPT !.conflicts = d.conflicts],
                                             d.conflict, t)
                        IN IF a.err THEN next([st EXCEPT !.w = a.w])
                           ELSE IF a.resolution \in {ResolutionKeepRemote, ResolutionKeepBoth}
                           THEN next([w |-> a.w, out |-> Append(st.out, req)])
                           ELSE next([st EXCEPT !.w = a.w])
                   ELSE IF After(remoteFile.modTime, st.w.fs[localPath].mtime)
                        THEN next(request)
                        ELSE next(st)

\* A handleFileList that requests every listed file without looking at its own.
handleFileList_AlwaysRequest(n, fileList, peerName) ==
    LET localFolderPath == findLocalFolderByName(n, fileList.folderName)
        st0 == [w |-> [fs |-> fs[n], pending |-> pending[n], conflicts |-> conflicts[n]],
                out |-> <<>>]
    IN IF localFolderPath = NoFolder THEN st0
       ELSE IF ~CanReceive(n) THEN st0
       ELSE [st0 EXCEPT !.out =
                [i \in 1..Len(fileList.files) |->
                    FileRequestMessage(fileList.folderPath, fileList.folderName,
                                       fileList.files[i].relPath)]]

\* handleFileList: the device's state afterwards and the FileRequests it sends.
handleFileList(n, fileList, peerName) ==
    LET localFolderPath == findLocalFolderByName(n, fileList.folderName)
        st0 == [w |-> [fs |-> fs[n], pending |-> pending[n], conflicts |-> conflicts[n]],
                out |-> <<>>]
    IN IF localFolderPath = NoFolder THEN st0
       ELSE IF ~CanReceive(n) THEN st0
       ELSE FileListLoop(n, store[n], fileList, localFolderPath, peerName, now, 1, st0)

\* handleFileRequest: the FileData sent back, if any.
handleFileRequest(n, req) ==
    LET fullPath == Join(req.folderPath, req.relPath)
        data == ReadFile(fs[n], fullPath)
        fi == GetFileInfo(fs[n], fullPath, req.folderPath)
    IN IF fullPath \notin DOMAIN fs[n] THEN <<>>
       ELSE IF ShouldIgnore(n, fullPath) THEN <<>>
       ELSE IF ~data.ok THEN <<>>
       ELSE IF ~fi.ok THEN <<>>
       ELSE << FileDataMessage(req.folderPath, req.relPath, fi.size, fi.modTime,
                               fi.hash, data.data) >>

\* handleFileData: [applied, fs, pending, store, activity].
handleFileData(n, fileData, peerName) ==
    LET localFolderPath == findLocalFolderByName(n, fileData.folderName)
        fullPath == Join(localFolderPath, fileData.relPath)
        same == [applied |-> FALSE, fs |-> fs[n], pending |-> pending[n],
                 store |-> store[n], activities |-> activities[n]]
    IN IF ~CanReceive(n) THEN same
       ELSE IF localFolderPath = NoFolder THEN same
       ELSE [applied |-> TRUE,
             fs |-> Put(fs[n], fullPath,
                        [content |-> fileData.data, mtime |-> fileData.modTime,
                         readable |-> IF fullPath \in DOMAIN fs[n]
                                      THEN fs[n][fullPath].readable ELSE TRUE]),
             pending |-> NotifyWrite(n, pending[n], fullPath, fullPath \in DOMAIN fs[n]),
             store |-> UpdateFileState(store[n], localFolderPath,
                          FileState(fileData.relPath, fileData.hash, fileData.size,
                                    fileData.modTime, peerName), now),
             activities |-> addActivity(activities[n],
                              SyncActivity("received", fileData.relPath, peerName))]

\* handleRemoteDelete: [applied, fs, pending, store, activity].
handleRemoteDelete(n, del, peerName) ==
    LET localFolderPath == findLocalFolderByName(n, del.folderName)
        fullPath == Join(localFolderPath, del.relPath)
        same == [applied |-> FALSE, fs |-> fs[n], pending |-> pending[n],
                 store |-> store[n], activities |-> activities[n]]
    IN IF ~CanReceive(n) THEN same
       ELSE IF localFolderPath = NoFolder THEN same
       ELSE [applied |-> TRUE,
             fs |-> Del(fs[n], fullPath),
             pending |-> IF fullPath \in DOMAIN fs[n]
                         THEN Notify(n, pending[n], fullPath, "Remove")
                         ELSE pending[n],
             store |-> RemoveFileState(store[n], localFolderPath, del.relPath, now),
             activities |-> addActivity(activities[n],
                              SyncActivity("deleted", del.relPath, peerName))]

\* handleFileChange, with the file system as GetFileInfo sees it (fsStat) and as
\* the later os.ReadFile sees it (fsRead): [store, sent, msg].
handleFileChangeAt(n, event, fsStat, fsRead) ==
    LET fi == GetFileInfo(fsStat, event.path, event.folderPath)
        data == ReadFile(fsRead, event.path)
        updated == UpdateFileState(store[n], event.folderPath,
                      FileState(fi.relPath, fi.hash, fi.size, fi.modTime, DeviceName(n)),
                      now)
    IN IF ~CanSend(n) THEN [store |-> store[n], sent |-> FALSE]
       ELSE IF ~fi.ok THEN [store |-> store[n], sent |-> FALSE]
       ELSE IF ~data.ok THEN [store |-> updated, sent |-> FALSE]
       ELSE [store |-> updated, sent |-> TRUE,
             msg |-> FileDataMessage(event.folderPath, fi.relPath, fi.size, fi.modTime,
                                     fi.hash, data.data),
             activity |-> SyncActivity("sent", fi.relPath, "all")]

\* handleFileChange with nothing touching the file while it runs.
handleFileChange(n, event) == handleFileChangeAt(n, event, fs[n], fs[n])

\* handleFileDelete: [store, sent, msg].
handleFileDelete(n, event) ==
    LET removed == RemoveFileState(store[n], event.folderPath, event.relPath, now)
    IN IF ~CanSend(n) THEN [store |-> removed, sent |-> FALSE]
       ELSE [store |-> removed, sent |-> TRUE,
             msg |-> FileDeleteMessage(event.folderPath, event.relPath),
             activity |-> SyncActivity("deleted", event.relPath, "all")]

\* handleFileEvent: dispatch on the event type.
handleFileEvent(n, event) ==
    IF event.type \in {EventCreate, EventModify}
    THEN handleFileChange(n, event)
    ELSE handleFileDelete(n, event)

----------------------------------------------------------------------------
(* Initial states *)

SharedStore(n, syncedFrom) ==
    UpdateFileState(InitFolder(EmptyMap, FolderOf(n), 0), FolderOf(n),
                    FileState(PathA, Sha256(V0), Len(V0), 0, syncedFrom), 0)

NoStep == [node |-> "", msg |-> [type |-> ""]]

Handled(n, msg) == [node |-> n, msg |-> msg]

UserOp(n, op, relPath, c, t) ==
    [node |-> n, op |-> op, relPath |-> relPath, content |-> c, time |-> t]

\* After Engine.Start on both devices.  Either the folders are empty, or both
\* hold a.txt with the same content and a baseline for it (an earlier sync
\* from Alpha to Beta).
InitCommon(synced, edits) ==
    /\ now = 0
    /\ \E shared \in synced :
         /\ fs = [n \in Nodes |->
                    IF shared THEN Put(EmptyMap, Join(FolderOf(n), PathA), File(V0, 0))
                    ELSE EmptyMap]
         /\ store = [n \in Nodes |->
                       IF shared
                       THEN SharedStore(n, IF n = "Alpha" THEN DeviceName(n)
                                           ELSE ConnDeviceName(n, "Alpha"))
                       ELSE InitFolder(EmptyMap, FolderOf(n), 0)]
    /\ conflicts = [n \in Nodes |-> EmptyMap]
    /\ activities = [n \in Nodes |-> <<>>]
    /\ pending = [n \in Nodes |-> EmptyMap]
    /\ evq = [n \in Nodes |-> <<>>]
    /\ open = [s \in Sessions |-> FALSE]
    /\ chan = [s \in Sessions |-> [n \in Nodes |-> <<>>]]
    /\ syncq = [n \in Nodes |-> <<>>]
    /\ budget = [edits |-> [n \in Nodes |-> edits], inject |-> MaxInject]
    /\ userlog = <<>>
    /\ last = NoStep
    /\ WatcherIdle
    /\ StoreUnsaved
    /\ DiscoveryIdle
    /\ ExtrasIdle

Bounded ==
    /\ \A s \in Sessions, n \in Nodes : Len(chan[s][n]) <= MaxQueue
    /\ \A n \in Nodes : Len(evq[n]) <= MaxQueue
    /\ \A n \in Nodes : Len(activities[n]) <= MaxLog

----------------------------------------------------------------------------
(* Environment: the user and the network *)

\* The user writes a file: content c at clock time t.
UserWrite(n, relPath, c, t) ==
    LET path == Join(FolderOf(n), relPath) IN
    /\ budget.edits[n] > 0
    /\ t \in {now, now + 1} /\ t <= MaxTime
    /\ now' = t
    /\ fs' = [fs EXCEPT ![n] = Put(@, path, File(c, t))]
    /\ pending' = [pending EXCEPT ![n] = NotifyWrite(n, @, path, path \in DOMAIN fs[n])]
    /\ budget' = [budget EXCEPT !.edits[n] = @ - 1]
    /\ UNCHANGED <<cfg, store, conflicts, activities, evq, open, chan, syncq>>
    /\ userlog' = Append(userlog, UserOp(n, "write", relPath, c, t))
    /\ last' = NoStep
    /\ UNCHANGED ovars

\* The user removes a file.
UserDelete(n, relPath) ==
    LET path == Join(FolderOf(n), relPath) IN
    /\ budget.edits[n] > 0
    /\ path \in DOMAIN fs[n]
    /\ fs' = [fs EXCEPT ![n] = Del(@, path)]
    /\ pending' = [pending EXCEPT ![n] = Notify(n, @, path, "Remove")]
    /\ budget' = [budget EXCEPT !.edits[n] = @ - 1]
    /\ UNCHANGED <<cfg, now, store, conflicts, activities, evq, open, chan, syncq>>
    /\ userlog' = Append(userlog, UserOp(n, "delete", relPath, Empty, now))
    /\ last' = NoStep
    /\ UNCHANGED ovars

\* The user takes away or gives back read permission (fsnotify reports Chmod,
\* which handleFsEvent drops).
UserChmod(n, relPath) ==
    LET path == Join(FolderOf(n), relPath) IN
    /\ budget.edits[n] > 0
    /\ path \in DOMAIN fs[n]
    /\ fs' = [fs EXCEPT ![n][path].readable = ~@]
    /\ budget' = [budget EXCEPT !.edits[n] = @ - 1]
    /\ UNCHANGED <<cfg, now, store, conflicts, activities, pending, evq, open, chan, syncq>>
    /\ userlog' = Append(userlog, UserOp(n, "chmod", relPath, Empty, now))
    /\ last' = NoStep
    /\ UNCHANGED ovars

\* Client.Connect by device s and the accept on its peer: both ends register
\* the session and send Hello (onServerConnect, onClientConnect).
Connect(s) ==
    /\ ~open[s]
    /\ open' = [open EXCEPT ![s] = TRUE]
    /\ chan' = [chan EXCEPT ![s] = [n \in Nodes |->
                   Append(chan[s][n], HelloMessage(DeviceName(Peer(n))))]]
    /\ UNCHANGED <<cfg, userlog, now, fs, store, conflicts, activities, pending, evq, syncq, budget>>
    /\ last' = NoStep
    /\ UNCHANGED ovars

----------------------------------------------------------------------------
(* Watcher and event pump *)

Perms(S) == {seq \in [1..Cardinality(S) -> S] :
                \A i, j \in 1..Cardinality(S) : i < j => seq[i] # seq[j]}

RECURSIVE Offer(_, _)
\* The non-blocking sends of flushPendingEvents: an event is dropped when the
\* channel is full.
Offer(q, events) ==
    IF events = <<>> THEN q
    ELSE Offer(IF Len(q) < EventChanCap THEN Append(q, Head(events)) ELSE q, Tail(events))

\* flushPendingEvents: the debounce timer fires; the table is emptied into the
\* output channel in map iteration order.
Flush(n) ==
    /\ DOMAIN pending[n] # {}
    /\ \E order \in Perms(DOMAIN pending[n]) :
         evq' = [evq EXCEPT ![n] =
                    Offer(@, [i \in 1..Len(order) |-> pending[n][order[i]]])]
    /\ pending' = [pending EXCEPT ![n] = EmptyMap]
    /\ UNCHANGED <<cfg, userlog, now, fs, store, conflicts, activities, open, chan, syncq, budget>>
    /\ Bounded'
    /\ last' = NoStep
    /\ UNCHANGED ovars

\* processFileEvents: one event taken from the watcher and handled.
HandleFileEvent(n) ==
    /\ evq[n] # <<>>
    /\ LET r == handleFileEvent(n, Head(evq[n])) IN
         /\ store' = [store EXCEPT ![n] = r.store]
         /\ chan' = IF r.sent THEN Broadcast(chan, n, r.msg) ELSE chan
         /\ activities' = IF r.sent
                          THEN [activities EXCEPT ![n] = addActivity(@, r.activity)]
                          ELSE activities
    /\ evq' = [evq EXCEPT ![n] = Tail(@)]
    /\ UNCHANGED <<cfg, userlog, now, fs, conflicts, pending, open, syncq, budget>>
    /\ Bounded'
    /\ last' = NoStep
    /\ UNCHANGED ovars

\* handleFileChange while the user writes the file again between GetFileInfo
\* and os.ReadFile: the handler is not atomic with respect to the file system.
HandleFileChangeRaced(n, c, t) ==
    /\ evq[n] # <<>>
    /\ Head(evq[n]).type \in {EventCreate, EventModify}
    /\ budget.edits[n] > 0
    /\ t \in {now, now + 1} /\ t <= MaxTime
    /\ LET event == Head(evq[n])
           written == Put(fs[n], event.path, File(c, t))
           r == handleFileChangeAt(n, event, fs[n], written)
       IN /\ fs' = [fs EXCEPT ![n] = written]
          /\ pending' = [pending EXCEPT ![n] =
                            NotifyWrite(n, @, event.path, event.path \in DOMAIN fs[n])]
          /\ store' = [store EXCEPT ![n] = r.store]
          /\ chan' = IF r.sent THEN Broadcast(chan, n, r.msg) ELSE chan
          /\ activities' = IF r.sent
                           THEN [activities EXCEPT ![n] = addActivity(@, r.activity)]
                           ELSE activities
          /\ userlog' = Append(userlog, UserOp(n, "write", event.relPath, c, t))
    /\ now' = t
    /\ evq' = [evq EXCEPT ![n] = Tail(@)]
    /\ budget' = [budget EXCEPT !.edits[n] = @ - 1]
    /\ UNCHANGED <<cfg, conflicts, open, syncq>>
    /\ Bounded'
    /\ last' = NoStep
    /\ UNCHANGED ovars

\* SyncFolder, started by a Hello: scan and send the FileList to every session.
SyncFolder(n) ==
    /\ syncq[n] # <<>>
    /\ \E i \in 1..Len(syncq[n]) :
         /\ chan' = Broadcast(chan, n,
                       FileListMessage(syncq[n][i], scanFolder(n, fs[n], syncq[n][i])))
         /\ syncq' = [syncq EXCEPT ![n] =
                         SubSeq(@, 1, i - 1) \o SubSeq(@, i + 1, Len(@))]
    /\ UNCHANGED <<cfg, userlog, now, fs, store, conflicts, activities, pending, evq, open, budget>>
    /\ Bounded'
    /\ last' = NoStep
    /\ UNCHANGED ovars

----------------------------------------------------------------------------
(* Message handlers: handleMessage on the next frame of session s at device n *)

Next1(n, s, type) == open[s] /\ chan[s][n] # <<>> /\ Head(chan[s][n]).type = type

Pop(ch, n, s) == [ch EXCEPT ![s][n] = Tail(@)]

EnabledFolders(n) ==
    LET idx == {i \in 1..Len(Folders(n)) : Folders(n)[i].enabled}
    IN [k \in 1..Cardinality(idx) |->
          Folders(n)[CHOOSE i \in idx : Cardinality({j \in idx : j < i}) = k - 1].path]

HandleHello(n, s) ==
    /\ Next1(n, s, "Hello")
    /\ chan' = Send(Pop(chan, n, s), n, s, HelloAckMessage(DeviceName(n)))
    /\ syncq' = [syncq EXCEPT ![n] = @ \o EnabledFolders(n)]
    /\ UNCHANGED <<cfg, userlog, now, fs, store, conflicts, activities, pending, evq, open, budget>>
    /\ Bounded'
    /\ last' = Handled(n, Head(chan[s][n]))
    /\ UNCHANGED ovars

HandleHelloAck(n, s) ==
    /\ Next1(n, s, "HelloAck")
    /\ chan' = Pop(chan, n, s)
    /\ UNCHANGED <<cfg, userlog, now, fs, store, conflicts, activities, pending, evq, open, syncq, budget>>
    /\ last' = Handled(n, Head(chan[s][n]))
    /\ UNCHANGED ovars

HandleFileList(n, s) ==
    /\ Next1(n, s, "FileList")
    /\ LET r == handleFileList(n, Head(chan[s][n]), ConnDeviceName(n, s)) IN
         /\ fs' = [fs EXCEPT ![n] = r.w.fs]
         /\ pending' = [pending EXCEPT ![n] = r.w.pending]
         /\ conflicts' = [conflicts EXCEPT ![n] = r.w.conflicts]
         /\ chan' = SendAll(Pop(chan, n, s), n, s, r.out)
    /\ UNCHANGED <<cfg, userlog, now, store, activities, evq, open, syncq, budget>>
    /\ Bounded'
    /\ last' = Handled(n, Head(chan[s][n]))
    /\ UNCHANGED ovars

HandleFileRequest(n, s) ==
    /\ Next1(n, s, "FileRequest")
    /\ chan' = SendAll(Pop(chan, n, s), n, s, handleFileRequest(n, Head(chan[s][n])))
    /\ UNCHANGED <<cfg, userlog, now, fs, store, conflicts, activities, pending, evq, open, syncq, budget>>
    /\ Bounded'
    /\ last' = Handled(n, Head(chan[s][n]))
    /\ UNCHANGED ovars

HandleFileData(n, s) ==
    /\ Next1(n, s, "FileData")
    /\ LET r == handleFileData(n, Head(chan[s][n]), ConnDeviceName(n, s)) IN
         /\ fs' = [fs EXCEPT ![n] = r.fs]
         /\ pending' = [pending EXCEPT ![n] = r.pending]
         /\ store' = [store EXCEPT ![n] = r.store]
         /\ activities' = [activities EXCEPT ![n] = r.activities]
    /\ chan' = Pop(chan, n, s)
    /\ UNCHANGED <<cfg, userlog, now, conflicts, evq, open, syncq, budget>>
    /\ Bounded'
    /\ last' = Handled(n, Head(chan[s][n]))
    /\ UNCHANGED ovars

HandleRemoteDelete(n, s) ==
    /\ Next1(n, s, "FileDelete")
    /\ LET r == handleRemoteDelete(n, Head(chan[s][n]), ConnDeviceName(n, s)) IN
         /\ fs' = [fs EXCEPT ![n] = r.fs]
         /\ pending' = [pending EXCEPT ![n] = r.pending]
         /\ store' = [store EXCEPT ![n] = r.store]
         /\ activities' = [activities EXCEPT ![n] = r.activities]
    /\ chan' = Pop(chan, n, s)
    /\ UNCHANGED <<cfg, userlog, now, conflicts, evq, open, syncq, budget>>
    /\ Bounded'
    /\ last' = Handled(n, Head(chan[s][n]))
    /\ UNCHANGED ovars

\* The network delivers to Alpha any frame its peer can put on the wire.
Inject(s, msg) ==
    /\ open[s]
    /\ budget.inject > 0
    /\ chan' = [chan EXCEPT ![s]["Alpha"] = Append(@, msg)]
    /\ budget' = [budget EXCEPT !.inject = @ - 1]
    /\ UNCHANGED <<cfg, userlog, now, fs, store, conflicts, activities, pending, evq, open, syncq>>
    /\ Bounded'
    /\ last' = NoStep
    /\ UNCHANGED ovars

\* The peer reads the next frame Alpha sent it.
Drain(s) ==
    /\ open[s]
    /\ chan[s]["Beta"] # <<>>
    /\ chan' = Pop(chan, "Beta", s)
    /\ UNCHANGED <<cfg, userlog, now, fs, store, conflicts, activities, pending, evq, open, syncq, budget>>
    /\ last' = NoStep
    /\ UNCHANGED ovars

----------------------------------------------------------------------------
(* Spec: two engines, one session dialed by Alpha *)

\* The files of the two-device model and what each user writes.
SyncPaths == {PathA}

UserContent(n) == IF n = "Alpha" THEN A1 ELSE B1

Dialers == {"Alpha"}

InitStrategy(strategy) ==
    /\ InitCommon({TRUE}, MaxEdits)
    /\ cfg = [n \in Nodes |-> [direction |-> "bidirectional", strategy |-> strategy]]

Init == InitStrategy("newest_wins")

Next ==
    \/ \E n \in Nodes, r \in SyncPaths : UserWrite(n, r, UserContent(n), now + 1)
    \/ \E n \in Nodes, r \in SyncPaths : UserDelete(n, r)
    \/ \E s \in Dialers : Connect(s)
    \/ \E n \in Nodes : Flush(n)
    \/ \E n \in Nodes : HandleFileEvent(n)
    \/ \E n \in Nodes : SyncFolder(n)
    \/ \E n \in Nodes, s \in Sessions : HandleHello(n, s)
    \/ \E n \in Nodes, s \in Sessions : HandleHelloAck(n, s)
    \/ \E n \in Nodes, s \in Sessions : HandleFileList(n, s)
    \/ \E n \in Nodes, s \in Sessions : HandleFileRequest(n, s)
    \/ \E n \in Nodes, s \in Sessions : HandleFileData(n, s)
    \/ \E n \in Nodes, s \in Sessions : HandleRemoteDelete(n, s)

Spec == Init /\ [][Next]_vars

InitKeepBoth == InitStrategy("keep_both")

SpecKeepBoth == InitKeepBoth /\ [][Next]_vars

----------------------------------------------------------------------------
(* SpecOpen: the engine of Alpha against any peer *)

\* What the peer may hold, and so announce and send.
PeerContents == {Empty, V0, B1}

PeerTimes == {1}

PeerFolder == FolderOf("Beta")

\* A folder of the peer that has no counterpart on Alpha.
OtherFolder == <<Name("Users", ""), Name("b", ""), Name("Other", "")>>

InfoHash(content) == IF Len(content) > 0 THEN Sha256(content) ELSE NoHash

PeerEntries ==
    { FileInfoEntry(r, Len(c), t, InfoHash(c)) :
        r \in AllPaths, c \in PeerContents, t \in PeerTimes }

PeerMessages ==
    { HelloMessage("Beta"), HelloAckMessage("Beta") }
    \cup { FileListMessage(PeerFolder, <<e>>) : e \in PeerEntries }
    \cup { FileRequestMessage(FolderOf("Alpha"), getFolderName(FolderOf("Alpha")), r) :
             r \in AllPaths }
    \cup { FileDataMessage(PeerFolder, r, Len(c), t, InfoHash(c), c) :
             r \in AllPaths, c \in PeerContents, t \in PeerTimes }
    \cup { FileDeleteMessage(PeerFolder, r) : r \in AllPaths }
    \cup { FileListMessage(OtherFolder, <<FileInfoEntry(PathA, Len(B1), 1, InfoHash(B1))>>),
           FileDataMessage(OtherFolder, PathA, Len(B1), 1, InfoHash(B1), B1),
           FileDeleteMessage(OtherFolder, PathA) }

BidirectionalConfigs ==
    { [direction |-> "bidirectional", strategy |-> s] : s \in Strategies }

OneWayConfigs ==
    { [direction |-> d, strategy |-> "newest_wins"] : d \in {"send_only", "receive_only"} }

InitPeer(configs, synced) ==
    /\ InitCommon(synced, MaxUserOps)
    /\ \E c \in configs :
         cfg = [n \in Nodes |-> IF n = "Alpha" THEN c
                                ELSE [direction |-> "bidirectional", strategy |-> "newest_wins"]]

InitOpen == InitPeer(BidirectionalConfigs, BOOLEAN)

NextOpen ==
    \/ \E r \in AllPaths, c \in {Empty, A1}, t \in 0..MaxTime : UserWrite("Alpha", r, c, t)
    \/ \E r \in AllPaths : UserDelete("Alpha", r)
    \/ \E r \in AllPaths : UserChmod("Alpha", r)
    \/ \E s \in Dialers : Connect(s)
    \/ \E s \in Sessions, msg \in PeerMessages : Inject(s, msg)
    \/ \E s \in Sessions : Drain(s)
    \/ Flush("Alpha")
    \/ HandleFileEvent("Alpha")
    \/ SyncFolder("Alpha")
    \/ \E s \in Sessions : HandleHello("Alpha", s)
    \/ \E s \in Sessions : HandleHelloAck("Alpha", s)
    \/ \E s \in Sessions : HandleFileList("Alpha", s)
    \/ \E s \in Sessions : HandleFileRequest("Alpha", s)
    \/ \E s \in Sessions : HandleFileData("Alpha", s)
    \/ \E s \in Sessions : HandleRemoteDelete("Alpha", s)

SpecOpen == InitOpen /\ [][NextOpen]_vars

InitOneWay == InitPeer(OneWayConfigs, {TRUE})

SpecOneWay == InitOneWay /\ [][NextOpen]_vars

----------------------------------------------------------------------------
(* SpecFrame: one frame handled by Alpha from any local state *)

\* What Alpha may hold at a.txt: nothing, or any content with any mode and age.
LocalFiles ==
    { EmptyMap }
    \cup { Put(EmptyMap, Join(FolderOf("Alpha"), PathA), [File(c, t) EXCEPT !.readable = r]) :
             c \in Contents, t \in 0..MaxTime, r \in BOOLEAN }

\* What Alpha may remember of a.txt: nothing, or the hash of any content.
LocalStores ==
    { InitFolder(EmptyMap, FolderOf("Alpha"), 0) }
    \cup { UpdateFileState(InitFolder(EmptyMap, FolderOf("Alpha"), 0), FolderOf("Alpha"),
                           FileState(PathA, InfoHash(c), Len(c), 0, ""), 0) :
             c \in Contents }

FrameMessages == {m \in PeerMessages : m.type \notin {"Hello", "HelloAck"}}

InitFrame ==
    /\ now = MaxTime
    /\ \E c \in BidirectionalConfigs :
         cfg = [n \in Nodes |-> IF n = "Alpha" THEN c
                                ELSE [direction |-> "bidirectional", strategy |-> "newest_wins"]]
    /\ \E f \in LocalFiles : fs = [n \in Nodes |-> IF n = "Alpha" THEN f ELSE EmptyMap]
    /\ \E st \in LocalStores :
         store = [n \in Nodes |-> IF n = "Alpha" THEN st
                                  ELSE InitFolder(EmptyMap, FolderOf(n), 0)]
    /\ conflicts = [n \in Nodes |-> EmptyMap]
    /\ activities = [n \in Nodes |-> <<>>]
    /\ pending = [n \in Nodes |-> EmptyMap]
    /\ evq = [n \in Nodes |-> <<>>]
    /\ open = [s \in Sessions |-> s \in Dialers]
    /\ chan = [s \in Sessions |-> [n \in Nodes |-> <<>>]]
    /\ syncq = [n \in Nodes |-> <<>>]
    /\ budget = [edits |-> [n \in Nodes |-> 0], inject |-> MaxInject]
    /\ userlog = <<>>
    /\ last = NoStep
    /\ WatcherIdle
    /\ StoreUnsaved
    /\ DiscoveryIdle
    /\ ExtrasIdle

NextFrame ==
    \/ \E s \in Sessions, msg \in FrameMessages : Inject(s, msg)
    \/ \E s \in Sessions : Drain(s)
    \/ Flush("Alpha")
    \/ HandleFileEvent("Alpha")
    \/ \E s \in Sessions : HandleFileList("Alpha", s)
    \/ \E s \in Sessions : HandleFileRequest("Alpha", s)
    \/ \E s \in Sessions : HandleFileData("Alpha", s)
    \/ \E s \in Sessions : HandleRemoteDelete("Alpha", s)

SpecFrame == InitFrame /\ [][NextFrame]_vars

----------------------------------------------------------------------------
(* SpecEvent: one watcher event handled by Alpha from any local state *)

AllConfigs == BidirectionalConfigs \cup OneWayConfigs

\* The events the watcher may hand over for a.txt.
WatcherEvents ==
    { [type |-> ty, path |-> Join(FolderOf("Alpha"), PathA), relPath |-> PathA,
       folderPath |-> FolderOf("Alpha")] :
        ty \in {EventCreate, EventModify, EventDelete, EventRename} }

InitEvent ==
    /\ now = 0
    /\ \E c \in AllConfigs :
         cfg = [n \in Nodes |-> IF n = "Alpha" THEN c
                                ELSE [direction |-> "bidirectional", strategy |-> "newest_wins"]]
    /\ \E f \in LocalFiles : fs = [n \in Nodes |-> IF n = "Alpha" THEN f ELSE EmptyMap]
    /\ \E st \in LocalStores :
         store = [n \in Nodes |-> IF n = "Alpha" THEN st
                                  ELSE InitFolder(EmptyMap, FolderOf(n), 0)]
    /\ conflicts = [n \in Nodes |-> EmptyMap]
    /\ activities = [n \in Nodes |-> <<>>]
    /\ pending = [n \in Nodes |-> EmptyMap]
    /\ \E e \in WatcherEvents : evq = [n \in Nodes |-> IF n = "Alpha" THEN <<e>> ELSE <<>>]
    /\ \E o \in BOOLEAN : open = [s \in Sessions |-> o /\ s \in Dialers]
    /\ chan = [s \in Sessions |-> [n \in Nodes |-> <<>>]]
    /\ syncq = [n \in Nodes |-> <<>>]
    /\ budget = [edits |-> [n \in Nodes |-> IF n = "Alpha" THEN MaxUserOps ELSE 0],
                 inject |-> 0]
    /\ userlog = <<>>
    /\ last = NoStep
    /\ WatcherIdle
    /\ StoreUnsaved
    /\ DiscoveryIdle
    /\ ExtrasIdle

NextEvent ==
    \/ HandleFileEvent("Alpha")
    \/ \E c \in {Empty, A1}, t \in 0..MaxTime : HandleFileChangeRaced("Alpha", c, t)
    \/ Flush("Alpha")
    \/ \E s \in Sessions : Drain(s)

SpecEvent == InitEvent /\ [][NextEvent]_vars

----------------------------------------------------------------------------
(* SpecDebounce: the watcher of Alpha in time *)

\* Time is counted in ticks of 50 ms: the debounce delay of 100 ms is 2 ticks.
DebounceTicks == 2

\* The paths raw notifications arrive for.
NotifiedPaths ==
    { Join(FolderOf("Alpha"), PathA), Join(FolderOf("Alpha"), PathTmp),
      Join(FolderOf("Alpha"), <<Name("b", ".txt")>>) }

\* The notification passes the filters of handleFsEvent.
Accepted(n, path, op) ==
    /\ ~ShouldIgnore(n, path)
    /\ resolvePaths(n, path).folderPath # NoFolder
    /\ op \in {"Create", "Write", "Remove", "Rename"}

\* The entry of the path carries serial k unless it already carries one
\* (the serial stands for FileEvent.Timestamp).
Stamp(pend, path, k) ==
    IF path \in DOMAIN pend /\ "seq" \notin DOMAIN pend[path]
    THEN [pend EXCEPT ![path] = @ @@ [seq |-> k]]
    ELSE pend

\* processEvents: a raw notification arrives; handleFsEvent filters it and
\* debounceEvent stores it and restarts the timer (Stop cancels a timer that
\* has not fired; a callback that has started is not affected).
Arrive(n, path, op) ==
    LET k == Len(wlog.arrivals) + 1 IN
    /\ k <= MaxArrivals
    /\ pending' = [pending EXCEPT ![n] = Stamp(handleFsEvent(n, @, path, op), path, k)]
    /\ debounceTimer' = IF Accepted(n, path, op)
                        THEN [debounceTimer EXCEPT !.deadline = now + DebounceTicks]
                        ELSE debounceTimer
    /\ wlog' = [wlog EXCEPT !.arrivals = Append(@, [path |-> path, op |-> op, time |-> now,
                                                     flushes |-> wlog.flushes])]
    /\ last' = NoStep
    /\ UNCHANGED <<cfg, now, fs, store, conflicts, activities, evq, open, chan, syncq,
                   budget, userlog, pvars, dvars, xvars>>

\* The runtime fires the timer at its deadline and starts the callback in a
\* goroutine of its own.
TimerFire ==
    /\ debounceTimer.deadline = now
    /\ debounceTimer' = [deadline |-> NoTimer, fired |-> debounceTimer.fired + 1]
    /\ last' = NoStep
    /\ UNCHANGED <<cfg, now, fs, store, conflicts, activities, pending, evq, open, chan,
                   syncq, budget, userlog, wlog, pvars, dvars, xvars>>

\* The events of a flush that the channel takes, in the order offered.
Taken(q, events) ==
    SubSeq(events, 1, IF Len(events) <= EventChanCap - Len(q) THEN Len(events)
                      ELSE EventChanCap - Len(q))

\* flushPendingEvents, run by a started callback whenever it is scheduled and
\* gets the lock: swap the table for an empty one and offer every entry.
FlushPendingEvents(n) ==
    /\ debounceTimer.fired > 0
    /\ debounceTimer' = [debounceTimer EXCEPT !.fired = @ - 1]
    /\ \E order \in Perms(DOMAIN pending[n]) :
         LET events == [i \in 1..Len(order) |-> pending[n][order[i]]]
             taken == Taken(evq[n], events)
         IN /\ evq' = [evq EXCEPT ![n] = Offer(@, events)]
            /\ wlog' = [wlog EXCEPT
                          !.flushes = @ + 1,
                          !.emitted = @ \o [i \in 1..Len(taken) |->
                                               [path |-> taken[i].path, seq |-> taken[i].seq,
                                                time |-> now, flush |-> wlog.flushes + 1]]]
    /\ pending' = [pending EXCEPT ![n] = EmptyMap]
    /\ last' = NoStep
    /\ UNCHANGED <<cfg, now, fs, store, conflicts, activities, open, chan, syncq, budget,
                   userlog, pvars, dvars, xvars>>
    /\ Bounded'

\* Time passes; an armed timer fires at its deadline, not later.
Tick ==
    /\ now < MaxTicks
    /\ debounceTimer.deadline # now
    /\ now' = now + 1
    /\ last' = NoStep
    /\ UNCHANGED <<cfg, fs, store, conflicts, activities, pending, evq, open, chan, syncq,
                   budget, userlog, wvars, pvars, dvars, xvars>>

InitDebounce ==
    /\ now = 0
    /\ cfg = [n \in Nodes |-> [direction |-> "bidirectional", strategy |-> "newest_wins"]]
    /\ fs = [n \in Nodes |-> EmptyMap]
    /\ store = [n \in Nodes |-> InitFolder(EmptyMap, FolderOf(n), 0)]
    /\ conflicts = [n \in Nodes |-> EmptyMap]
    /\ activities = [n \in Nodes |-> <<>>]
    /\ pending = [n \in Nodes |-> EmptyMap]
    /\ evq = [n \in Nodes |-> <<>>]
    /\ open = [s \in Sessions |-> FALSE]
    /\ chan = [s \in Sessions |-> [n \in Nodes |-> <<>>]]
    /\ syncq = [n \in Nodes |-> <<>>]
    /\ budget = [edits |-> [n \in Nodes |-> 0], inject |-> 0]
    /\ userlog = <<>>
    /\ last = NoStep
    /\ WatcherIdle
    /\ StoreUnsaved
    /\ DiscoveryIdle
    /\ ExtrasIdle

NextDebounce ==
    \/ \E path \in NotifiedPaths, op \in {"Create", "Remove", "Chmod"} :
         Arrive("Alpha", path, op)
    \/ TimerFire
    \/ FlushPendingEvents("Alpha")
    \/ Tick
    \/ HandleFileEvent("Alpha")

SpecDebounce == InitDebounce /\ [][NextDebounce]_vars

----------------------------------------------------------------------------
(* State store on disk: Save writes one JSON file per folder, named by the  *)
(* 32-bit FNV-1a hash of the folder path; Load reads every file back.       *)

\* The bytes of the names the folder paths below are made of.
NameBytes ==
    [Users   |-> <<85, 115, 101, 114, 115>>,
     a       |-> <<97>>,
     Shared  |-> <<83, 104, 97, 114, 101, 100>>,
     bhfhfbh |-> <<98, 104, 102, 104, 102, 98, 104>>,
     cbeeacc |-> <<99, 98, 101, 101, 97, 99, 99>>]

RECURSIVE PathBytes(_)
\* The bytes of an absolute path: "/" and the name, for every component.
PathBytes(path) ==
    IF path = <<>> THEN <<>>
    ELSE <<47>> \o NameBytes[path[1].stem] \o PathBytes(Tail(path))

RECURSIVE Xor(_, _, _)
\* a ^ b on numbers of the given count of bits.
Xor(a, b, bits) ==
    IF bits = 0 THEN 0
    ELSE (((a % 2) + (b % 2)) % 2) + 2 * Xor(a \div 2, b \div 2, bits - 1)

\* A uint32 as its two 16-bit halves; h ^= uint32(byte) touches the low byte.
XorByte(h, byte) ==
    [hi |-> h.hi, lo |-> ((h.lo \div 256) * 256) + Xor(h.lo % 256, byte, 8)]

\* h *= 16777619 in uint32 arithmetic; 16777619 = 2^24 + 403, and
\* h * 2^24 mod 2^32 is the low byte of h moved to the top.
MulPrime(h) ==
    LET low == h.lo * 403
    IN [hi |-> ((h.hi * 403) + (low \div 65536) + ((h.lo % 256) * 256)) % 65536,
        lo |-> low % 65536]

RECURSIVE hashFrom(_, _)
hashFrom(h, bytes) ==
    IF bytes = <<>> THEN h
    ELSE hashFrom(MulPrime(XorByte(h, Head(bytes))), Tail(bytes))

\* hashString: FNV-1a from the offset 2166136261 = 0x811C9DC5.
hashString(bytes) == hashFrom([hi |-> 33052, lo |-> 40389], bytes)

\* fmt.Sprintf("%x.json", hashString(fs.Path)): one name per hash value.
StateFileName(path) == [hash |-> hashString(PathBytes(path)), ext |-> ".json"]

\* json.MarshalIndent of a FolderState: every field under its json tag.
Marshal(path, folder) ==
    [path |-> path,
     files |-> [r \in DOMAIN folder.files |->
                  [rel_path |-> folder.files[r].relPath,
                   hash |-> folder.files[r].hash,
                   size |-> folder.files[r].size,
                   mod_time |-> folder.files[r].modTime,
                   synced_from |-> folder.files[r].syncedFrom]],
     updated_at |-> folder.updatedAt]

\* json.Unmarshal into a FolderState.
Unmarshal(doc) ==
    [path |-> doc.path,
     folder |-> FolderState([r \in DOMAIN doc.files |->
                               FileState(doc.files[r].rel_path, doc.files[r].hash,
                                         doc.files[r].size, doc.files[r].mod_time,
                                         doc.files[r].synced_from)],
                            doc.updated_at)]

RECURSIVE Save(_, _, _)
\* Save: os.WriteFile of every folder, in the order the map is ranged over.
Save(dir, st, order) ==
    IF order = <<>> THEN dir
    ELSE Save(Put(dir, StateFileName(order[1]), Marshal(order[1], st[order[1]])),
              st, Tail(order))

\* Load: s.folders[fs.Path] = &fs for every .json file of the directory.
Load(st, dir) ==
    LET docs == {Unmarshal(dir[f]) : f \in {g \in DOMAIN dir : g.ext = ".json"}}
        paths == {d.path : d \in docs}
    IN [p \in DOMAIN st \cup paths |->
          IF p \in paths THEN (CHOOSE d \in docs : d.path = p).folder ELSE st[p]]

\* The step just taken saved or loaded the store; a load remembers whether
\* it directly follows a save.
StoreStep(n, op, afterSave) ==
    [node |-> n, msg |-> [type |-> ""], op |-> op, afterSave |-> afterSave]

\* StateStore.Save of a device's store: the map is ranged over in any order.
SaveStore(n) ==
    /\ \E order \in Perms(DOMAIN store[n]) :
         stateDir' = Save(stateDir, store[n], order)
    /\ last' = StoreStep(n, "Save", FALSE)
    /\ UNCHANGED <<cfg, now, fs, store, conflicts, activities, pending, evq, open, chan,
                   syncq, budget, userlog, wvars, restored, dvars, xvars>>

\* The device starts again: NewStateStore, then Load.
LoadStore(n) ==
    /\ restored' = Load(EmptyMap, stateDir)
    /\ last' = StoreStep(n, "Load", last = StoreStep(n, "Save", FALSE))
    /\ UNCHANGED <<cfg, now, fs, store, conflicts, activities, pending, evq, open, chan,
                   syncq, budget, userlog, wvars, stateDir, dvars, xvars>>

\* The folder paths of the stored folders: the device's folder and two paths
\* whose FNV-1a hashes are both 0x1aa1615e.
StorePaths == {FolderOf("Alpha"), <<Name("bhfhfbh", "")>>, <<Name("cbeeacc", "")>>}

\* What a folder may remember: nothing, or a.txt with the hash of any content.
StoredFolders ==
    { FolderState(EmptyMap, t) : t \in 0..1 }
    \cup { FolderState(Put(EmptyMap, PathA, FileState(PathA, InfoHash(c), Len(c), 0, "")), t) :
             c \in Contents, t \in 0..1 }

\* The stores a device may hold: any folders of StorePaths, each in any state.
SavedStores == UNION { [ps -> StoredFolders] : ps \in SUBSET StorePaths }

InitPersist ==
    /\ now = 1
    /\ cfg = [n \in Nodes |-> [direction |-> "bidirectional", strategy |-> "newest_wins"]]
    /\ fs = [n \in Nodes |-> EmptyMap]
    /\ \E st \in SavedStores : store = [n \in Nodes |-> IF n = "Alpha" THEN st ELSE EmptyMap]
    /\ conflicts = [n \in Nodes |-> EmptyMap]
    /\ activities = [n \in Nodes |-> <<>>]
    /\ pending = [n \in Nodes |-> EmptyMap]
    /\ evq = [n \in Nodes |-> <<>>]
    /\ open = [s \in Sessions |-> FALSE]
    /\ chan = [s \in Sessions |-> [n \in Nodes |-> <<>>]]
    /\ syncq = [n \in Nodes |-> <<>>]
    /\ budget = [edits |-> [n \in Nodes |-> 0], inject |-> 0]
    /\ userlog = <<>>
    /\ last = NoStep
    /\ WatcherIdle
    /\ StoreUnsaved
    /\ DiscoveryIdle
    /\ ExtrasIdle

NextPersist ==
    \/ SaveStore("Alpha")
    \/ LoadStore("Alpha")

SpecPersist == InitPersist /\ [][NextPersist]_vars

----------------------------------------------------------------------------
(* Discovery: the peer registry and its health check. Time is counted in    *)
(* ticks of 15 s here.                                                      *)

\* The ticker's period, 30 s.
HealthPeriod == 2

\* 2*time.Minute.
PeerTimeout == 8

MaxHealthTime == 12

\* A Peer of the registry (id is its key).
NewPeer(manual, lastSeen) == [manual |-> manual, lastSeen |-> lastSeen]

\* fmt.Sprintf("manual-%s", addr); a text is the sequence of its pieces.
ManualID(addr) == <<"manual-">> \o addr

\* The instance names mDNS may announce: the other device, this device, and
\* a device whose name reads like a manual peer's id.
Instances == { <<"Beta">>, <<"Alpha">>, ManualID(<<"m:9876">>) }

\* network.manual_peers and the addresses added at runtime.
ManualAddrs == { <<"m:9876">> }

\* handleServiceEntry: the entry's peer takes the id's place in the registry.
handleServiceEntry(reg, instance, t) == Put(reg, instance, NewPeer(FALSE, t))

addManualPeer(reg, addr, t) == Put(reg, ManualID(addr), NewPeer(TRUE, t))

\* A health check that removes a peer as soon as it has not been seen for 2 minutes.
healthCheck_AtTimeout(reg, t) ==
    [id \in {i \in DOMAIN reg : ~(~reg[i].manual /\ t - reg[i].lastSeen >= PeerTimeout)} |->
       reg[id]]

\* healthCheck, one tick: the registry without the peers timed out.
healthCheck(reg, t) ==
    [id \in {i \in DOMAIN reg : ~(~reg[i].manual /\ t - reg[i].lastSeen > PeerTimeout)} |->
       reg[id]]

HealthStep == [node |-> "Alpha", msg |-> [type |-> ""], op |-> "HealthTick"]

\* A health tick is due and not handled yet.
TickDue == dlog.ticks < now \div HealthPeriod

\* handleServiceEntry calls onPeerFound when the id was not in the registry.
EntryFiresFound(reg, instance) == instance \notin DOMAIN reg

\* addManualPeer calls onPeerFound on every call.
ManualFiresFound(reg, addr) == TRUE

\* A peer was added: its id, whether the id was in the registry before, and
\* whether onPeerFound was called.
FoundStep(op, id, fired) ==
    [node |-> "Alpha", msg |-> [type |-> ""], op |-> op, id |-> id,
     known |-> id \in DOMAIN peers, fired |-> fired]

\* doBrowseCycle: an entry arrives; the device's own instance is skipped.
ServiceEntry(n, instance) ==
    /\ instance # <<n>>
    /\ peers' = handleServiceEntry(peers, instance, now)
    /\ last' = FoundStep("handleServiceEntry", instance, EntryFiresFound(peers, instance))
    /\ UNCHANGED <<cfg, now, fs, store, conflicts, activities, pending, evq, open, chan,
                   syncq, budget, userlog, wvars, pvars, dlog, xvars>>

\* Start, or AddManualPeer from the folders screen.
AddManualPeer(addr) ==
    /\ peers' = addManualPeer(peers, addr, now)
    /\ last' = FoundStep("addManualPeer", ManualID(addr), ManualFiresFound(peers, addr))
    /\ UNCHANGED <<cfg, now, fs, store, conflicts, activities, pending, evq, open, chan,
                   syncq, budget, userlog, wvars, pvars, dlog, xvars>>

\* healthCheck takes a tick from the ticker: the peers timed out are deleted
\* and onPeerLost is called for each, in the order the map is ranged over.
HealthTick ==
    /\ TickDue
    /\ peers' = healthCheck(peers, now)
    /\ \E order \in Perms(DOMAIN peers \ DOMAIN peers') :
         dlog' = [lost |-> dlog.lost \o [i \in 1..Len(order) |-> [id |-> order[i], time |-> now]],
                  ticks |-> dlog.ticks + 1]
    /\ last' = HealthStep
    /\ UNCHANGED <<cfg, now, fs, store, conflicts, activities, pending, evq, open, chan,
                   syncq, budget, userlog, wvars, pvars, xvars>>

\* 15 s pass; the ticker's tick is taken when it is due.
Pass ==
    /\ now < MaxHealthTime
    /\ ~TickDue
    /\ now' = now + 1
    /\ last' = NoStep
    /\ UNCHANGED <<cfg, fs, store, conflicts, activities, pending, evq, open, chan,
                   syncq, budget, userlog, ovars>>

InitDiscovery ==
    /\ now = 0
    /\ cfg = [n \in Nodes |-> [direction |-> "bidirectional", strategy |-> "newest_wins"]]
    /\ fs = [n \in Nodes |-> EmptyMap]
    /\ store = [n \in Nodes |-> InitFolder(EmptyMap, FolderOf(n), 0)]
    /\ conflicts = [n \in Nodes |-> EmptyMap]
    /\ activities = [n \in Nodes |-> <<>>]
    /\ pending = [n \in Nodes |-> EmptyMap]
    /\ evq = [n \in Nodes |-> <<>>]
    /\ open = [s \in Sessions |-> FALSE]
    /\ chan = [s \in Sessions |-> [n \in Nodes |-> <<>>]]
    /\ syncq = [n \in Nodes |-> <<>>]
    /\ budget = [edits |-> [n \in Nodes |-> 0], inject |-> 0]
    /\ userlog = <<>>
    /\ last = NoStep
    /\ WatcherIdle
    /\ StoreUnsaved
    /\ DiscoveryIdle
    /\ ExtrasIdle

NextDiscovery ==
    \/ \E instance \in Instances : ServiceEntry("Alpha", instance)
    \/ \E addr \in ManualAddrs : AddManualPeer(addr)
    \/ HealthTick
    \/ Pass

SpecDiscovery == InitDiscovery /\ [][NextDiscovery]_vars

----------------------------------------------------------------------------
(* SpecPrompt: Alpha under strategy prompt, from any local state, against   *)
(* two frames about a.txt                                                   *)

MaxPromptFrames == 2

\* The frames of the peer that are about a.txt of the shared folder.
PromptMessages ==
    { FileListMessage(PeerFolder, <<FileInfoEntry(PathA, Len(c), t, InfoHash(c))>>) :
        c \in PeerContents, t \in PeerTimes }
    \cup { FileDataMessage(PeerFolder, PathA, Len(c), t, InfoHash(c), c) :
             c \in PeerContents, t \in PeerTimes }
    \cup { FileDeleteMessage(PeerFolder, PathA),
           FileRequestMessage(FolderOf("Alpha"), getFolderName(FolderOf("Alpha")), PathA) }

InitPrompt ==
    /\ now = MaxTime
    /\ cfg = [n \in Nodes |-> [direction |-> "bidirectional",
                               strategy |-> IF n = "Alpha" THEN "prompt" ELSE "newest_wins"]]
    /\ \E f \in LocalFiles : fs = [n \in Nodes |-> IF n = "Alpha" THEN f ELSE EmptyMap]
    /\ \E st \in LocalStores :
         store = [n \in Nodes |-> IF n = "Alpha" THEN st
                                  ELSE InitFolder(EmptyMap, FolderOf(n), 0)]
    /\ conflicts = [n \in Nodes |-> EmptyMap]
    /\ activities = [n \in Nodes |-> <<>>]
    /\ pending = [n \in Nodes |-> EmptyMap]
    /\ evq = [n \in Nodes |-> <<>>]
    /\ open = [s \in Sessions |-> s \in Dialers]
    /\ chan = [s \in Sessions |-> [n \in Nodes |-> <<>>]]
    /\ syncq = [n \in Nodes |-> <<>>]
    /\ budget = [edits |-> [n \in Nodes |-> 0], inject |-> MaxPromptFrames]
    /\ userlog = <<>>
    /\ last = NoStep
    /\ WatcherIdle
    /\ StoreUnsaved
    /\ DiscoveryIdle
    /\ ExtrasIdle

NextPrompt ==
    \/ \E s \in Sessions, msg \in PromptMessages : Inject(s, msg)
    \/ \E s \in Sessions : Drain(s)
    \/ Flush("Alpha")
    \/ HandleFileEvent("Alpha")
    \/ \E s \in Sessions : HandleFileList("Alpha", s)
    \/ \E s \in Sessions : HandleFileRequest("Alpha", s)
    \/ \E s \in Sessions : HandleFileData("Alpha", s)
    \/ \E s \in Sessions : HandleRemoteDelete("Alpha", s)

SpecPrompt == InitPrompt /\ [][NextPrompt]_vars

----------------------------------------------------------------------------
(* SpecWire: framing. A length is kept at its width: an int is the count of *)
(* 2^32 it holds (top) and its low 32 bits in two 16-bit halves (hi, lo).   *)

MaxWireFrames == 2

MaxSends == 1

Size(top, hi, lo) == [top |-> top, hi |-> hi, lo |-> lo]

\* uint32(len(data)): the low 32 bits.
Uint32(len) == Size(0, len.hi, len.lo)

\* a > b on lengths.
Greater(a, b) ==
    \/ a.top > b.top
    \/ a.top = b.top /\ a.hi > b.hi
    \/ a.top = b.top /\ a.hi = b.hi /\ a.lo > b.lo

\* 64 * 1024 * 1024 = 1024 * 2^16.
MaxMessageSize == Size(0, 1024, 0)

\* The bytes of one frame on the wire: the 4-byte prefix, the size of the
\* body that follows, whether the body is the JSON of a Message, and the
\* Message then.
Frame(prefix, size, json, msg) ==
    [prefix |-> prefix, size |-> size, json |-> json, msg |-> msg]

\* A Message; decodes tells whether its payload decodes as its type asks.
WireMessage(type, decodes) == [type |-> type, decodes |-> decodes]

NoMessage == WireMessage("", FALSE)

\* WriteMessage of a message whose JSON is len bytes long: the error
\* returned and the bytes written.
WriteMessage(len, msg) ==
    LET length == Uint32(len)
    IN IF Greater(length, MaxMessageSize)
       THEN [err |-> TRUE, bytes |-> <<>>]
       ELSE [err |-> FALSE, bytes |-> << Frame(length, len, TRUE, msg) >>]

\* ReadMessage of the next frame: the prefix is checked, then prefix bytes
\* are read and unmarshalled.
ReadMessage(frame) ==
    IF Greater(frame.prefix, MaxMessageSize) THEN [err |-> TRUE, why |-> "too large"]
    ELSE IF ~frame.json \/ frame.size # frame.prefix THEN [err |-> TRUE, why |-> "unmarshal"]
    ELSE [err |-> FALSE, why |-> "", msg |-> frame.msg]

\* The lengths a message's JSON may have, around 64 MiB and around 2^32.
WireSizes == { Size(t, h, l) : t \in {0, 1}, h \in {0, 1024, 1025}, l \in {0, 1} }

SmallSize == Size(0, 0, 1)

MessageTypes == {"Hello", "HelloAck", "FileList", "FileRequest", "FileData", "FileDelete"}

\* The frames the peer may put on the wire: well-formed ones the read loop or
\* handleMessage only takes note of, messages whose payload does not decode,
\* bodies that are not JSON, and prefixes at and over the limit.
PeerFrames ==
    { Frame(SmallSize, SmallSize, TRUE, WireMessage(t, TRUE)) : t \in {"Ping", "HelloAck"} }
    \cup { Frame(SmallSize, SmallSize, TRUE, WireMessage(t, FALSE)) : t \in MessageTypes }
    \cup { Frame(SmallSize, SmallSize, FALSE, NoMessage),
           Frame(MaxMessageSize, MaxMessageSize, TRUE, WireMessage("HelloAck", TRUE)),
           Frame(Size(0, 1024, 1), Size(0, 1024, 1), TRUE, WireMessage("HelloAck", TRUE)),
           Frame(Size(0, 65535, 65535), SmallSize, FALSE, NoMessage) }

WriteStep(n, s, len, r) ==
    [node |-> n, msg |-> [type |-> ""], op |-> "Write", session |-> s, len |-> len,
     err |-> r.err, bytes |-> r.bytes]

ReadStep(n, s, frame, r, decoded) ==
    [node |-> n, msg |-> [type |-> ""], op |-> "Read", session |-> s, frame |-> frame,
     err |-> r.err, decoded |-> decoded]

\* Connection.Send of a message whose JSON has any of the lengths.
SendFrame(n, s, len) ==
    /\ open[s]
    /\ budget.sends > 0
    /\ LET r == WriteMessage(len, WireMessage("FileData", TRUE)) IN
         /\ chan' = SendAll(chan, n, s, r.bytes)
         /\ last' = WriteStep(n, s, len, r)
    /\ budget' = [budget EXCEPT !.sends = @ - 1]
    /\ UNCHANGED <<cfg, userlog, now, fs, store, conflicts, activities, pending, evq, open,
                   syncq>>
    /\ UNCHANGED ovars
    /\ Bounded'

\* readLoop, one round, and what follows it: a read error ends the loop and
\* handleConnection takes the connection out of the server's table; a Ping
\* is answered; any other message goes to handleMessage, which returns when
\* the payload does not decode and otherwise (HelloAck) logs.
ReadLoop(n, s) ==
    /\ open[s]
    /\ chan[s][n] # <<>>
    /\ LET frame == Head(chan[s][n])
           r == ReadMessage(frame)
       IN /\ open' = [open EXCEPT ![s] = ~r.err]
          /\ chan' = IF ~r.err /\ r.msg.type = "Ping"
                     THEN SendAll(Pop(chan, n, s), n, s,
                                  WriteMessage(SmallSize, WireMessage("Pong", TRUE)).bytes)
                     ELSE Pop(chan, n, s)
          /\ last' = ReadStep(n, s, frame, r, ~r.err /\ r.msg.decodes)
    /\ UNCHANGED <<cfg, userlog, now, fs, store, conflicts, activities, pending, evq, syncq,
                   budget>>
    /\ UNCHANGED ovars
    /\ Bounded'

InitWire ==
    /\ now = 0
    /\ cfg = [n \in Nodes |-> [direction |-> "bidirectional", strategy |-> "newest_wins"]]
    /\ fs = [n \in Nodes |-> EmptyMap]
    /\ store = [n \in Nodes |-> InitFolder(EmptyMap, FolderOf(n), 0)]
    /\ conflicts = [n \in Nodes |-> EmptyMap]
    /\ activities = [n \in Nodes |-> <<>>]
    /\ pending = [n \in Nodes |-> EmptyMap]
    /\ evq = [n \in Nodes |-> <<>>]
    /\ open = [s \in Sessions |-> TRUE]
    /\ chan = [s \in Sessions |-> [n \in Nodes |-> <<>>]]
    /\ syncq = [n \in Nodes |-> <<>>]
    /\ budget = [edits |-> [n \in Nodes |-> 0], inject |-> MaxWireFrames, sends |-> MaxSends]
    /\ userlog = <<>>
    /\ last = NoStep
    /\ WatcherIdle
    /\ StoreUnsaved
    /\ DiscoveryIdle
    /\ ExtrasIdle

NextWire ==
    \/ \E s \in Sessions, frame \in PeerFrames : Inject(s, frame)
    \/ \E s \in Sessions, len \in WireSizes : SendFrame("Alpha", s, len)
    \/ \E s \in Sessions : ReadLoop("Alpha", s)
    \/ \E s \in Sessions : Drain(s)

SpecWire == InitWire /\ [][NextWire]_vars

----------------------------------------------------------------------------
(* SpecSession: the life of the connections of the server and the client.   *)
(* A connection is named by its place in net.conns.                         *)

MaxConns == 3

\* The engine's variables but the history of the last step.
evars == <<cfg, now, fs, store, conflicts, activities, pending, evq, open, chan, syncq,
           budget, userlog>>

\* Every variable but net and the history of the last step.
NotNet == <<evars, wvars, pvars, dvars, locks, down, heap, conf, ring, rl, hs, rd, cm, life>>

\* Every variable but locks and the history of the last step.
NotLocks == <<evars, wvars, pvars, dvars, net, down, heap, conf, ring, rl, hs, rd, cm, life>>

\* The addresses the client dials.
Addresses == { "b:9876", "c:9876" }

\* The goroutines that call Client.Connect (one per onPeerFound).
ConnectTasks == { "t1", "t2" }

\* A Connection or ClientConnection: whether its net.Conn was closed, whether
\* its read loop runs, and how often onDisconnect was called with it.
NewConnection(kind, address) ==
    [kind |-> kind, address |-> address, closed |-> FALSE, loop |-> "running",
     disconnects |-> 0]

\* Connection.Close of every connection of a set: cancel and Conn.Close.
CloseAll(conns, ids) ==
    [i \in 1..Len(conns) |-> IF i \in ids THEN [conns[i] EXCEPT !.closed = TRUE] ELSE conns[i]]

\* ClientConnection.Close of every connection of a set: cancel, Conn.Close
\* and the call of onDisconnect.
ClientCloseAll(conns, ids) ==
    [i \in 1..Len(conns) |->
       IF i \in ids THEN [conns[i] EXCEPT !.closed = TRUE, !.disconnects = @ + 1]
       ELSE conns[i]]

NetStep(op) == [node |-> "Alpha", msg |-> [type |-> ""], op |-> op]

\* acceptLoop and the head of handleConnection: the connection is registered.
Accept ==
    /\ Len(net.conns) < MaxConns
    /\ net' = [net EXCEPT !.conns = Append(@, NewConnection("server", "")),
                          !.server = @ \cup {Len(net.conns) + 1}]
    /\ last' = NetStep("Accept")
    /\ UNCHANGED NotNet

\* The read loop of a server connection returns (read error, read deadline,
\* or its connection was closed) and handleConnection cleans up.
ServerLoopEnds(id) ==
    /\ id \in 1..Len(net.conns)
    /\ net.conns[id].kind = "server"
    /\ net.conns[id].loop = "running"
    /\ net' = [net EXCEPT !.conns[id].loop = "ended",
                          !.conns[id].disconnects = @ + 1,
                          !.server = @ \ {id}]
    /\ last' = NetStep("ServerLoopEnds")
    /\ UNCHANGED NotNet

\* Server.Stop: every registered connection is closed.
ServerStop ==
    /\ net.server # {}
    /\ net' = [net EXCEPT !.conns = CloseAll(@, net.server)]
    /\ last' = NetStep("ServerStop")
    /\ UNCHANGED NotNet

\* Client.Connect up to the dial: the table has no connection to the address.
ConnectCheck(t, address) ==
    /\ t \notin DOMAIN net.calls
    /\ address \notin DOMAIN net.client
    /\ net' = [net EXCEPT !.calls = Put(@, t, address)]
    /\ last' = NetStep("ConnectCheck")
    /\ UNCHANGED NotNet

\* Client.Connect from the dial on: the connection is made and registered
\* under its address, and its read loop is started.
ConnectRegister(t) ==
    /\ t \in DOMAIN net.calls
    /\ Len(net.conns) < MaxConns
    /\ net' = [net EXCEPT !.conns = Append(@, NewConnection("client", net.calls[t])),
                          !.client = Put(@, net.calls[t], Len(net.conns) + 1),
                          !.calls = Del(@, t)]
    /\ last' = NetStep("ConnectRegister")
    /\ UNCHANGED NotNet

\* Client.Connect: the dial fails.
ConnectFails(t) ==
    /\ t \in DOMAIN net.calls
    /\ net' = [net EXCEPT !.calls = Del(@, t)]
    /\ last' = NetStep("ConnectFails")
    /\ UNCHANGED NotNet

\* The read loop of a client connection returns; its deferred function
\* deletes the table's entry of the address and calls onDisconnect.
ClientLoopEnds(id) ==
    /\ id \in 1..Len(net.conns)
    /\ net.conns[id].kind = "client"
    /\ net.conns[id].loop = "running"
    /\ net' = [net EXCEPT !.conns[id].loop = "ended",
                          !.conns[id].disconnects = @ + 1,
                          !.client = Del(@, net.conns[id].address)]
    /\ last' = NetStep("ClientLoopEnds")
    /\ UNCHANGED NotNet

\* Client.Disconnect.
Disconnect(address) ==
    /\ address \in DOMAIN net.client
    /\ net' = [net EXCEPT !.conns = ClientCloseAll(@, {net.client[address]}),
                          !.client = Del(@, address)]
    /\ last' = NetStep("Disconnect")
    /\ UNCHANGED NotNet

\* Client.Stop.
ClientStop ==
    /\ net.client # EmptyMap
    /\ net' = [net EXCEPT !.conns = ClientCloseAll(@, {net.client[a] : a \in DOMAIN net.client}),
                          !.client = EmptyMap]
    /\ last' = NetStep("ClientStop")
    /\ UNCHANGED NotNet

InitSession ==
    /\ now = 0
    /\ cfg = [n \in Nodes |-> [direction |-> "bidirectional", strategy |-> "newest_wins"]]
    /\ fs = [n \in Nodes |-> EmptyMap]
    /\ store = [n \in Nodes |-> InitFolder(EmptyMap, FolderOf(n), 0)]
    /\ conflicts = [n \in Nodes |-> EmptyMap]
    /\ activities = [n \in Nodes |-> <<>>]
    /\ pending = [n \in Nodes |-> EmptyMap]
    /\ evq = [n \in Nodes |-> <<>>]
    /\ open = [s \in Sessions |-> FALSE]
    /\ chan = [s \in Sessions |-> [n \in Nodes |-> <<>>]]
    /\ syncq = [n \in Nodes |-> <<>>]
    /\ budget = [edits |-> [n \in Nodes |-> 0], inject |-> 0]
    /\ userlog = <<>>
    /\ last = NoStep
    /\ WatcherIdle
    /\ StoreUnsaved
    /\ DiscoveryIdle
    /\ ExtrasIdle

NextSession ==
    \/ Accept
    \/ \E id \in 1..MaxConns : ServerLoopEnds(id)
    \/ ServerStop
    \/ \E t \in ConnectTasks, address \in Addresses : ConnectCheck(t, address)
    \/ \E t \in ConnectTasks : ConnectRegister(t)
    \/ \E t \in ConnectTasks : ConnectFails(t)
    \/ \E id \in 1..MaxConns : ClientLoopEnds(id)
    \/ \E address \in Addresses : Disconnect(address)
    \/ ClientStop

SpecSession == InitSession /\ [][NextSession]_vars

----------------------------------------------------------------------------
(* SpecLocks: the readers/writer locks of the connection tables, the        *)
(* registry and the state store, and what is done while they are held.      *)

\* The locks: Server.connMu, Client.connMu, Discovery.mu, StateStore.mu.
Mutexes == { "Server.connMu", "Client.connMu", "Discovery.mu", "StateStore.mu" }

\* The goroutines: Server.Broadcast, the engine's loop over
\* Client.GetConnections, healthCheck, StateStore.Save, UpdateFileState.
LockTasks == { "broadcast", "clientsend", "health", "save", "update" }

\* The sends of one broadcast, the peers one tick removes, the folders one
\* Save writes.
Rounds == 2

\* sync.RWMutex: RLock is granted when no writer holds the lock, Lock when
\* nobody holds it.
CanRLock(mu) == \A h \in locks.held[mu] : h.mode = "R"

CanLock(mu) == locks.held[mu] = {}

Acquire(lk, mu, task, mode) ==
    [lk EXCEPT !.held[mu] = @ \cup {[task |-> task, mode |-> mode]}]

Release(lk, mu, task) ==
    [lk EXCEPT !.held[mu] = {h \in @ : h.task # task}]

\* The locks a goroutine holds.
HeldBy(task) == {mu \in Mutexes : \E h \in locks.held[mu] : h.task = task}

At(lk, task, pc, left) == [lk EXCEPT !.pc[task] = [at |-> pc, left |-> left]]

\* What a goroutine has just done, and the locks it held when it did.
LockStep(task, did) ==
    [node |-> "Alpha", msg |-> [type |-> ""], op |-> did, task |-> task, held |-> HeldBy(task)]

\* Enter a function that takes a lock first.
TakeLock(task, mu, mode, pc) ==
    /\ locks.pc[task].at = "idle"
    /\ IF mode = "R" THEN CanRLock(mu) ELSE CanLock(mu)
    /\ locks' = At(Acquire(locks, mu, task, mode), task, pc, Rounds)
    /\ last' = LockStep(task, "lock")
    /\ UNCHANGED NotLocks

\* One round of the work done at a place: a socket write, a file write or a
\* callback.
Work(task, pc, did) ==
    /\ locks.pc[task].at = pc
    /\ locks.pc[task].left > 0
    /\ locks' = [locks EXCEPT !.pc[task].left = @ - 1]
    /\ last' = LockStep(task, did)
    /\ UNCHANGED NotLocks

\* The lock is released, and the goroutine goes on at the next place.
DropLock(task, mu, pc, next, left) ==
    /\ locks.pc[task].at = pc
    /\ locks.pc[task].left = left
    /\ locks' = At(Release(locks, mu, task), task, next, Rounds)
    /\ last' = LockStep(task, "unlock")
    /\ UNCHANGED NotLocks

\* Server.Broadcast: RLock, deferred RUnlock; conn.Send for every connection.
BroadcastLock == TakeLock("broadcast", "Server.connMu", "R", "ranging")

BroadcastSend == Work("broadcast", "ranging", "socket write")

BroadcastReturn == DropLock("broadcast", "Server.connMu", "ranging", "idle", 0)

\* Client.GetConnections collects under the read lock and returns; the
\* engine then sends on every connection collected.
GetConnectionsLock == TakeLock("clientsend", "Client.connMu", "R", "collecting")

GetConnectionsReturn == DropLock("clientsend", "Client.connMu", "collecting", "sending", Rounds)

ClientSend == Work("clientsend", "sending", "socket write")

ClientSendDone ==
    /\ locks.pc["clientsend"] = [at |-> "sending", left |-> 0]
    /\ locks' = At(locks, "clientsend", "idle", Rounds)
    /\ last' = LockStep("clientsend", "return")
    /\ UNCHANGED NotLocks

\* healthCheck, one tick: Lock; delete and onPeerLost for every peer timed
\* out; Unlock.
HealthLock == TakeLock("health", "Discovery.mu", "W", "ranging")

HealthPeerLost == Work("health", "ranging", "onPeerLost")

HealthUnlock == DropLock("health", "Discovery.mu", "ranging", "idle", 0)

\* StateStore.Save: RLock, deferred RUnlock; os.WriteFile for every folder.
SaveLock == TakeLock("save", "StateStore.mu", "R", "ranging")

SaveWriteFile == Work("save", "ranging", "file write")

SaveReturn == DropLock("save", "StateStore.mu", "ranging", "idle", 0)

\* UpdateFileState: Lock, deferred Unlock, no I/O.
UpdateLock == TakeLock("update", "StateStore.mu", "W", "updating")

UpdateReturn == DropLock("update", "StateStore.mu", "updating", "idle", Rounds)

InitLocks ==
    /\ now = 0
    /\ cfg = [n \in Nodes |-> [direction |-> "bidirectional", strategy |-> "newest_wins"]]
    /\ fs = [n \in Nodes |-> EmptyMap]
    /\ store = [n \in Nodes |-> InitFolder(EmptyMap, FolderOf(n), 0)]
    /\ conflicts = [n \in Nodes |-> EmptyMap]
    /\ activities = [n \in Nodes |-> <<>>]
    /\ pending = [n \in Nodes |-> EmptyMap]
    /\ evq = [n \in Nodes |-> <<>>]
    /\ open = [s \in Sessions |-> FALSE]
    /\ chan = [s \in Sessions |-> [n \in Nodes |-> <<>>]]
    /\ syncq = [n \in Nodes |-> <<>>]
    /\ budget = [edits |-> [n \in Nodes |-> 0], inject |-> 0]
    /\ userlog = <<>>
    /\ last = NoStep
    /\ WatcherIdle
    /\ StoreUnsaved
    /\ DiscoveryIdle
    /\ ExtrasIdle

NextLocks ==
    \/ BroadcastLock
    \/ BroadcastSend
    \/ BroadcastReturn
    \/ GetConnectionsLock
    \/ GetConnectionsReturn
    \/ ClientSend
    \/ ClientSendDone
    \/ HealthLock
    \/ HealthPeerLost
    \/ HealthUnlock
    \/ SaveLock
    \/ SaveWriteFile
    \/ SaveReturn
    \/ UpdateLock
    \/ UpdateReturn

SpecLocks == InitLocks /\ [][NextLocks]_vars

----------------------------------------------------------------------------
(* SpecShutdown: runDaemon from the interrupt to its return. The deferred   *)
(* calls run in the reverse of the order they were deferred in: engine.Stop *)
(* (which saves the state), then disc.Stop, then server.Stop. The client is *)
(* never stopped. A message handler runs on the read loop of its session,   *)
(* which is none of the goroutines Engine.Stop waits for.                   *)

\* Every variable but down and the history of the last step.
NotDown == <<evars, wvars, pvars, dvars, net, locks, heap, conf, ring, rl, hs, rd, cm, life>>

\* The sessions of the daemon: two accepted by the server, one dialled by the client.
ServerSessions == { "in1", "in2" }
ClientSessions == { "out1" }
DaemonSessions == ServerSessions \cup ClientSessions

\* The paths of the synced folder, and the hashes a record can hold (0: no record).
DaemonPaths == { "a.txt", "b.txt" }
DaemonHashes == 0 .. MaxDaemonHash

\* The sessions whose read loop is running.
OpenSessions == {s \in DaemonSessions : down.sessions[s] = "open"}

\* What runDaemon has just done, with what was true when it did it.
DownStep(op) == [op |-> op, saved |-> Len(down.saved) > 0, open |-> OpenSessions]

\* Server.acceptLoop: a peer connects; the listener is open until Server.Stop.
DaemonAccept(s) ==
    /\ s \in ServerSessions
    /\ down.pc \in {"running", "signalled", "engine stopped", "discovery stopped"}
    /\ down.sessions[s] = "none"
    /\ down' = [down EXCEPT !.sessions[s] = "open"]
    /\ last' = DownStep("accept")
    /\ UNCHANGED NotDown

\* The onPeerFound callback of runDaemon: go client.Connect(peer.Address()).
\* The discovery calls it until disc.Stop.
DaemonConnect(s) ==
    /\ s \in ClientSessions
    /\ down.pc \in {"running", "signalled", "engine stopped"}
    /\ down.sessions[s] = "none"
    /\ down' = [down EXCEPT !.sessions[s] = "open"]
    /\ last' = DownStep("connect")
    /\ UNCHANGED NotDown

\* The peer closes the socket: the read loop of the session ends.
DaemonSessionEnds(s) ==
    /\ down.sessions[s] = "open"
    /\ down.pc # "returned"
    /\ down' = [down EXCEPT !.sessions[s] = "closed"]
    /\ last' = DownStep("session ends")
    /\ UNCHANGED NotDown

\* handleFileData (hash > 0) and handleFileDelete (hash 0) on the read loop
\* of an open session: UpdateFileState or RemoveFileState on the store.
DaemonReceive(s, path, hash) ==
    /\ down.sessions[s] = "open"
    /\ down.pc # "returned"
    /\ down.table[path] # hash
    /\ down' = [down EXCEPT !.table[path] = hash]
    /\ last' = DownStep("receive")
    /\ UNCHANGED NotDown

\* processFileEvents: a watcher event handled while the engine's context lives.
DaemonLocalChange(path, hash) ==
    /\ down.pc \in {"running", "signalled"}
    /\ down.table[path] # hash
    /\ down' = [down EXCEPT !.table[path] = hash]
    /\ last' = DownStep("local change")
    /\ UNCHANGED NotDown

\* runDaemon: <-sigCh.
DaemonSignal ==
    /\ down.pc = "running"
    /\ down' = [down EXCEPT !.pc = "signalled"]
    /\ last' = DownStep("signal")
    /\ UNCHANGED NotDown

\* The first deferred call to run, Engine.Stop: cancel, watcher.Stop, wg.Wait
\* (processFileEvents only), state.Save.
DeferredEngineStop ==
    /\ down.pc = "signalled"
    /\ down' = [down EXCEPT !.pc = "engine stopped", !.saved = <<down.table>>]
    /\ last' = DownStep("save")
    /\ UNCHANGED NotDown

\* The second, Discovery.Stop.
DeferredDiscoveryStop ==
    /\ down.pc = "engine stopped"
    /\ down' = [down EXCEPT !.pc = "discovery stopped"]
    /\ last' = DownStep("discovery stop")
    /\ UNCHANGED NotDown

\* The third, Server.Stop: cancel, listener.Close, conn.Close for every
\* accepted connection, wg.Wait. The client's sessions are not touched.
DeferredServerStop ==
    /\ down.pc = "discovery stopped"
    /\ down' = [down EXCEPT !.pc = "server stopped",
                            !.sessions = [s \in DaemonSessions |->
                                IF s \in ServerSessions /\ down.sessions[s] = "open"
                                THEN "closed" ELSE down.sessions[s]]]
    /\ last' = DownStep("server stop")
    /\ UNCHANGED NotDown

\* runDaemon returns and the process ends.
DaemonReturn ==
    /\ down.pc = "server stopped"
    /\ down' = [down EXCEPT !.pc = "returned"]
    /\ last' = DownStep("return")
    /\ UNCHANGED NotDown

\* The engine of every device as NewEngine leaves it, nothing sent or received.
EngineFresh ==
    /\ now = 0
    /\ cfg = [n \in Nodes |-> [direction |-> "bidirectional", strategy |-> "newest_wins"]]
    /\ fs = [n \in Nodes |-> EmptyMap]
    /\ store = [n \in Nodes |-> InitFolder(EmptyMap, FolderOf(n), 0)]
    /\ conflicts = [n \in Nodes |-> EmptyMap]
    /\ activities = [n \in Nodes |-> <<>>]
    /\ pending = [n \in Nodes |-> EmptyMap]
    /\ evq = [n \in Nodes |-> <<>>]
    /\ open = [s \in Sessions |-> FALSE]
    /\ chan = [s \in Sessions |-> [n \in Nodes |-> <<>>]]
    /\ syncq = [n \in Nodes |-> <<>>]
    /\ budget = [edits |-> [n \in Nodes |-> 0], inject |-> 0]
    /\ userlog = <<>>
    /\ last = NoStep

InitShutdown == EngineFresh /\ WatcherIdle /\ StoreUnsaved /\ DiscoveryIdle /\ ExtrasIdle

NextShutdown ==
    \/ \E s \in ServerSessions : DaemonAccept(s)
    \/ \E s \in ClientSessions : DaemonConnect(s)
    \/ \E s \in DaemonSessions : DaemonSessionEnds(s)
    \/ \E s \in DaemonSessions, path \in DaemonPaths, hash \in DaemonHashes :
           DaemonReceive(s, path, hash)
    \/ \E path \in DaemonPaths, hash \in DaemonHashes : DaemonLocalChange(path, hash)
    \/ DaemonSignal
    \/ DeferredEngineStop
    \/ DeferredDiscoveryStop
    \/ DeferredServerStop
    \/ DaemonReturn

SpecShutdown == InitShutdown /\ [][NextShutdown]_vars

----------------------------------------------------------------------------
(* SpecAlias: the state store as Go holds it. A folder's Files is a map of  *)
(* pointers to FileState objects; heap.objs are the objects (the hash of    *)
(* each), an address is a place in heap.objs, heap.files is the live map.   *)
(* A caller holds what a reader returned: the *FolderState itself from      *)
(* GetFolderState, a new map of the same pointers from GetAllFiles.         *)

\* Every variable but heap and the history of the last step.
NotHeap == <<evars, wvars, pvars, dvars, net, locks, down, conf, ring, rl, hs, rd, cm, life>>

AliasPaths == { "a.txt", "b.txt" }
AliasHashes == { 1, 2 }

\* The map a handle reaches: the live one through a *FolderState, its own
\* through the result of GetAllFiles.
MapOf(hp, i) ==
    IF hp.handles[i].kind = "folder" THEN hp.files ELSE hp.handles[i].files

\* What a map of pointers shows to who reads through it: path -> hash.
Deref(hp, files) == [p \in DOMAIN files |-> hp.objs[files[p]]]

\* What the store holds, and what the caller sees through handle i.
StoreView(hp) == Deref(hp, hp.files)
HandleView(hp, i) == Deref(hp, MapOf(hp, i))

\* A step of the store (by == 0) or of the caller holding handle by, with
\* the handles it changed under their holders, and whether it changed the store.
AliasStep(op, by) ==
    [op |-> op, by |-> by,
     moved |-> {i \in 1 .. Len(heap.handles) : HandleView(heap', i) # HandleView(heap, i)},
     store |-> StoreView(heap') # StoreView(heap)]

\* GetFolderState: return fs, the pointer the store keeps.
GetFolderState ==
    /\ Len(heap.handles) < MaxHandles
    /\ heap' = [heap EXCEPT !.handles = Append(@, [kind |-> "folder", files |-> EmptyMap])]
    /\ last' = AliasStep("GetFolderState", 0)
    /\ UNCHANGED NotHeap

\* GetAllFiles: a new map, files[k] = v for every entry; v is the pointer.
GetAllFiles ==
    /\ Len(heap.handles) < MaxHandles
    /\ heap' = [heap EXCEPT !.handles = Append(@, [kind |-> "files", files |-> heap.files])]
    /\ last' = AliasStep("GetAllFiles", 0)
    /\ UNCHANGED NotHeap

\* UpdateFileState(folderPath, &FileState{...}): fs.Files[state.RelPath] = state.
StoreUpdate(relPath, hash) ==
    /\ Len(heap.objs) < MaxObjects
    /\ heap' = [heap EXCEPT !.objs = Append(@, hash),
                            !.files = Put(@, relPath, Len(heap.objs) + 1)]
    /\ last' = AliasStep("UpdateFileState", 0)
    /\ UNCHANGED NotHeap

\* RemoveFileState: delete(fs.Files, relPath).
StoreRemove(relPath) ==
    /\ relPath \in DOMAIN heap.files
    /\ heap' = [heap EXCEPT !.files = Del(@, relPath)]
    /\ last' = AliasStep("RemoveFileState", 0)
    /\ UNCHANGED NotHeap

\* The caller writes a field of a record it was given: v.Files[p].Hash = hash
\* or files[p].Hash = hash.
CallerSetHash(i, relPath, hash) ==
    /\ i \in 1 .. Len(heap.handles)
    /\ relPath \in DOMAIN MapOf(heap, i)
    /\ heap.objs[MapOf(heap, i)[relPath]] # hash
    /\ heap' = [heap EXCEPT !.objs[MapOf(heap, i)[relPath]] = hash]
    /\ last' = AliasStep("caller sets Hash", i)
    /\ UNCHANGED NotHeap

\* The caller deletes an entry of the map it was given.
CallerDelete(i, relPath) ==
    /\ i \in 1 .. Len(heap.handles)
    /\ relPath \in DOMAIN MapOf(heap, i)
    /\ heap' = IF heap.handles[i].kind = "folder"
               THEN [heap EXCEPT !.files = Del(@, relPath)]
               ELSE [heap EXCEPT !.handles[i].files = Del(@, relPath)]
    /\ last' = AliasStep("caller deletes", i)
    /\ UNCHANGED NotHeap

InitAlias == EngineFresh /\ WatcherIdle /\ StoreUnsaved /\ DiscoveryIdle /\ ExtrasIdle

NextAlias ==
    \/ GetFolderState
    \/ GetAllFiles
    \/ \E relPath \in AliasPaths, hash \in AliasHashes : StoreUpdate(relPath, hash)
    \/ \E relPath \in AliasPaths : StoreRemove(relPath)
    \/ \E i \in 1 .. MaxHandles, relPath \in AliasPaths, hash \in AliasHashes :
           CallerSetHash(i, relPath, hash)
    \/ \E i \in 1 .. MaxHandles, relPath \in AliasPaths : CallerDelete(i, relPath)

SpecAlias == InitAlias /\ [][NextAlias]_vars

----------------------------------------------------------------------------
(* SpecConfig: the folder list of the configuration, changed by AddFolder,  *)
(* RemoveFolder and ToggleFolder (each saves the file) and read by Load.    *)

\* Every variable but conf and the history of the last step.
NotConf == <<evars, wvars, pvars, dvars, net, locks, down, heap, ring, rl, hs, rd, cm, life>>

\* The directories of the disk, and a path that is a file.
DocsOfA == << Name("Users", ""), Name("a", ""), Name("Docs", "") >>
DocsOfB == << Name("Users", ""), Name("b", ""), Name("Docs", "") >>
PicsOfA == << Name("Users", ""), Name("a", ""), Name("Pics", "") >>
NotesFile == << Name("Users", ""), Name("a", ""), Name("notes", ".txt") , ring, rl, hs, rd, cm, life>>
Directories == { DocsOfA, DocsOfB, PicsOfA }
ConfigPaths == Directories \cup { NotesFile }

FolderConfig(path, enabled) == [path |-> path, enabled |-> enabled]

\* The folder lists a user writes in config.yaml by hand.
EditedFiles ==
    { << FolderConfig(DocsOfA, TRUE), FolderConfig(DocsOfB, TRUE) >>,
      << FolderConfig(PicsOfA, TRUE), FolderConfig(DocsOfB, FALSE) >> }

\* The places of path in the list.
PlacesOf(folders, path) == {i \in 1 .. Len(folders) : folders[i].path = path}

\* The list without its i-th entry: append(c.Folders[:i], c.Folders[i+1:]...).
Without(folders, i) == SubSeq(folders, 1, i - 1) \o SubSeq(folders, i + 1, Len(folders))

\* findLocalFolderByName on a folder list: the enabled folders a name resolves to.
CandidatesByName(folders, folderName) ==
    {i \in 1 .. Len(folders) : folders[i].enabled /\ Base(folders[i].path) = folderName}

\* Config.AddFolder: rejected when the same path is configured, or the path
\* is not a directory; else appended enabled, and saved.
AddFolder(c, path) ==
    IF PlacesOf(c.folders, path) # {} THEN c
    ELSE IF path \notin Directories THEN c
    ELSE LET folders == Append(c.folders, FolderConfig(path, TRUE))
         IN [folders |-> folders, file |-> folders]

\* Config.RemoveFolder: the first entry with the path is removed, and saved.
RemoveFolder(c, path) ==
    IF PlacesOf(c.folders, path) = {} THEN c
    ELSE LET i == CHOOSE i \in PlacesOf(c.folders, path) :
                     \A j \in PlacesOf(c.folders, path) : i <= j
             folders == Without(c.folders, i)
         IN [folders |-> folders, file |-> folders]

\* Config.ToggleFolder: Enabled of the first entry with the path is negated, and saved.
ToggleFolder(c, path) ==
    IF PlacesOf(c.folders, path) = {} THEN c
    ELSE LET i == CHOOSE i \in PlacesOf(c.folders, path) :
                     \A j \in PlacesOf(c.folders, path) : i <= j
             folders == [c.folders EXCEPT ![i].enabled = ~@]
         IN [folders |-> folders, file |-> folders]

\* Load: the folders of the file, as they are.
LoadConfig(c) == [folders |-> c.file, file |-> c.file]

ConfigStep(op, path) == [op |-> op, path |-> path, before |-> conf.folders]

ConfigAddFolder(path) ==
    /\ Len(conf.folders) < MaxFolders
    /\ conf' = AddFolder(conf, path)
    /\ last' = ConfigStep("AddFolder", path)
    /\ UNCHANGED NotConf

ConfigRemoveFolder(path) ==
    /\ conf' = RemoveFolder(conf, path)
    /\ last' = ConfigStep("RemoveFolder", path)
    /\ UNCHANGED NotConf

ConfigToggleFolder(path) ==
    /\ conf' = ToggleFolder(conf, path)
    /\ last' = ConfigStep("ToggleFolder", path)
    /\ UNCHANGED NotConf

\* The user edits config.yaml.
ConfigEdit(folders) ==
    /\ conf' = [conf EXCEPT !.file = folders]
    /\ last' = ConfigStep("edit", <<>>)
    /\ UNCHANGED NotConf

\* A command starts: config.Load().
ConfigLoad ==
    /\ conf' = LoadConfig(conf)
    /\ last' = ConfigStep("Load", <<>>)
    /\ UNCHANGED NotConf

InitConfig == EngineFresh /\ WatcherIdle /\ StoreUnsaved /\ DiscoveryIdle /\ ExtrasIdle

NextConfig ==
    \/ \E path \in ConfigPaths : ConfigAddFolder(path)
    \/ \E path \in ConfigPaths : ConfigRemoveFolder(path)
    \/ \E path \in ConfigPaths : ConfigToggleFolder(path)
    \/ \E folders \in EditedFiles : ConfigEdit(folders)
    \/ ConfigLoad

SpecConfig == InitConfig /\ [][NextConfig]_vars

----------------------------------------------------------------------------
(* SpecActivities: the activity log with its capacity of 100. An engine is  *)
(* taken after some number of activities, then adds a few more and answers  *)
(* GetActivities; an activity carries the count of addActivity calls at     *)
(* which it was added, the order activityMu gives the calls.                *)

\* Every variable but ring and the history of the last step.
NotRing == <<evars, wvars, pvars, dvars, net, locks, down, heap, conf, rl, hs, rd, cm, life>>

MaxAdds == 3

ActivityTypes == << "sent", "received", "deleted" >>

\* The numbers of activities already added when the engine is taken.
PastLengths == { 0, 1, 98, 99, 100 }

\* The limits asked of GetActivities.
Limits == { -1, 0, 1, 2, 99, 100, 101 }

Activity(type, at) == [type |-> type, at |-> at]

\* The log after n calls of addActivity on the empty log, n <= 100: nothing
\* was trimmed yet, the i-th entry is the one added by call n - i + 1; the
\* types are taken in turn.
PastLog(n) ==
    [i \in 1 .. n |-> Activity(ActivityTypes[((n - i) % 3) + 1], n - i + 1)]

\* Engine.GetActivities(limit): a copy of the first limit entries, all of
\* them when limit <= 0 or limit > len.
GetActivities(log, limit) ==
    LET n == IF limit <= 0 \/ limit > Len(log) THEN Len(log) ELSE limit
    IN SubSeq(log, 1, n)

RingStep(op, limit) == [op |-> op, limit |-> limit]

\* A file sent, received or deleted: addActivity.
AddActivity(type) ==
    /\ ring.added < ring.past + MaxAdds
    /\ ring' = [ring EXCEPT !.log = addActivity(@, Activity(type, ring.added + 1)),
                            !.added = @ + 1]
    /\ last' = RingStep("addActivity", 0)
    /\ UNCHANGED NotRing

CallGetActivities(limit) ==
    /\ ring' = [ring EXCEPT !.result = GetActivities(ring.log, limit)]
    /\ last' = RingStep("GetActivities", limit)
    /\ UNCHANGED NotRing

InitActivities ==
    /\ EngineFresh /\ WatcherIdle /\ StoreUnsaved /\ DiscoveryIdle
    /\ ReadLoopsIdle /\ HelloIdle
    /\ ConflictMapIdle /\ EngineNew
    /\ RedialIdle /\ NetworkIdle /\ LocksIdle /\ DaemonRunning /\ HeapIdle /\ ConfigEmpty
    /\ \E n \in PastLengths : ring = [log |-> PastLog(n), past |-> n, added |-> n, result |-> <<>>]

NextActivities ==
    \/ \E i \in 1 .. Len(ActivityTypes) : AddActivity(ActivityTypes[i])
    \/ \E limit \in Limits : CallGetActivities(limit)

SpecActivities == InitActivities /\ [][NextActivities]_vars

----------------------------------------------------------------------------
(* SpecReadLoop: Connection.readLoop and ClientConnection.readLoop of one   *)
(* accepted and one dialled session. The server listens, and the discovery  *)
(* dials, before Engine.Start sets the handlers.                            *)

\* Every variable but rl and the history of the last step.
NotReadLoop == <<evars, wvars, pvars, dvars, net, locks, down, heap, conf, ring, hs, rd, cm, life>>

LoopSessions == { "inbound", "outbound" }

\* The types of the messages the peer sends.
LoopTypes == { "Ping", "Hello", "FileData" }

\* The messages of a sequence that are no Ping, in their order.
RECURSIVE NoPings(_)
NoPings(seq) ==
    IF seq = <<>> THEN <<>>
    ELSE IF Head(seq).type = "Ping" THEN NoPings(Tail(seq))
    ELSE <<Head(seq)>> \o NoPings(Tail(seq))

\* The frames of a session the read loop has read.
FramesRead(s) == SubSeq(rl.arrived[s], 1, Len(rl.arrived[s]) - Len(rl.wire[s]))

LoopStep(op, s) == [op |-> op, session |-> s, handlers |-> rl.handlers]

\* The peer writes a frame; the k-th frame of the session carries k.
PeerWrites(s, type) ==
    /\ Len(rl.arrived[s]) < MaxReadFrames
    /\ LET msg == [type |-> type, seq |-> Len(rl.arrived[s]) + 1]
       IN rl' = [rl EXCEPT !.wire[s] = Append(@, msg), !.arrived[s] = Append(@, msg)]
    /\ last' = LoopStep("write", s)
    /\ UNCHANGED NotReadLoop

\* Engine.Start: server.SetHandlers and client.SetHandlers.
SetHandlers ==
    /\ ~rl.handlers
    /\ rl' = [rl EXCEPT !.handlers = TRUE]
    /\ last' = LoopStep("SetHandlers", "")
    /\ UNCHANGED NotReadLoop

\* readLoop, one round: ReadMessage; a Ping is answered with a Pong and the
\* loop continues; any other message is handed to onMessage if it is set.
\* The loop reads again only when onMessage has returned.
ReadRound(s) ==
    /\ ~rl.handling[s]
    /\ rl.wire[s] # <<>>
    /\ LET msg == Head(rl.wire[s])
       IN rl' = IF msg.type = "Ping"
                THEN [rl EXCEPT !.wire[s] = Tail(@), !.pongs[s] = @ + 1]
                ELSE IF rl.handlers
                THEN [rl EXCEPT !.wire[s] = Tail(@), !.delivered[s] = Append(@, msg),
                                !.handling[s] = TRUE]
                ELSE [rl EXCEPT !.wire[s] = Tail(@)]
    /\ last' = LoopStep("read", s)
    /\ UNCHANGED NotReadLoop

\* onMessage returns.
HandlerReturns(s) ==
    /\ rl.handling[s]
    /\ rl' = [rl EXCEPT !.handling[s] = FALSE]
    /\ last' = LoopStep("return", s)
    /\ UNCHANGED NotReadLoop

InitReadLoop == EngineFresh /\ WatcherIdle /\ StoreUnsaved /\ DiscoveryIdle /\ ExtrasIdle

NextReadLoop ==
    \/ \E s \in LoopSessions, type \in LoopTypes : PeerWrites(s, type)
    \/ SetHandlers
    \/ \E s \in LoopSessions : ReadRound(s)
    \/ \E s \in LoopSessions : HandlerReturns(s)

SpecReadLoop == InitReadLoop /\ [][NextReadLoop]_vars

----------------------------------------------------------------------------
(* SpecHello: handleMessage on a Hello. The configuration is conf.folders;  *)
(* the k-th Hello received is named k, and the HelloAck and the folder      *)
(* syncs it causes carry k so that they can be told apart.                  *)

\* Every variable but hs and the history of the last step.
NotHello == <<evars, wvars, pvars, dvars, net, locks, down, heap, conf, ring, rl, rd, cm, life>>

\* network.ProtocolVersion, and the versions a peer may declare.
ProtocolVersion == "1.0"
HelloVersions == { ProtocolVersion, "2.0", "" }

\* The folder lists of the configuration.
HelloConfigs ==
    { <<>>,
      << FolderConfig(DocsOfA, TRUE) >>,
      << FolderConfig(DocsOfA, FALSE) >>,
      << FolderConfig(DocsOfA, TRUE), FolderConfig(PicsOfA, FALSE) >>,
      << FolderConfig(DocsOfA, FALSE), FolderConfig(PicsOfA, TRUE) >>,
      << FolderConfig(DocsOfA, TRUE), FolderConfig(PicsOfA, TRUE) >> }

\* A handleMessage(Hello) that starts a sync for every folder, enabled or not.
handleHello_AllFolders(folders, hello) ==
    [ack |-> HelloAckMessage(DeviceName("Alpha")),
     syncs |-> [i \in 1 .. Len(folders) |-> folders[i].path]]

\* handleMessage, case MsgHello: the HelloAck to send, then the folders for
\* which `go e.SyncFolder(path)` is run; hello.Version is not looked at.
handleHello(folders, hello) ==
    LET idx == {i \in 1 .. Len(folders) : folders[i].enabled}
    IN [ack |-> HelloAckMessage(DeviceName("Alpha")),
        syncs |-> [k \in 1 .. Cardinality(idx) |->
                     folders[CHOOSE i \in idx : Cardinality({j \in idx : j < i}) = k - 1].path]]

HelloStep(op, hello) == [op |-> op, hello |-> hello]

\* A Hello is read on session s: the HelloAck is sent on s, then one
\* goroutine per folder of handleHello is started.
ReceiveHello(s, version) ==
    /\ Len(hs.hellos) < MaxHellos
    /\ LET k == Len(hs.hellos) + 1
           hello == [type |-> "Hello", deviceName |-> "Beta", version |-> version]
           r == handleHello(conf.folders, hello)
       IN hs' = [hs EXCEPT
                   !.hellos = Append(@, [session |-> s, version |-> version]),
                   !.out[s] = Append(@, [msg |-> r.ack, hello |-> k]),
                   !.started = @ \o [i \in 1 .. Len(r.syncs) |->
                                       [hello |-> k, path |-> r.syncs[i]]],
                   !.running = @ \cup {[hello |-> k, path |-> r.syncs[i]] :
                                          i \in 1 .. Len(r.syncs)}]
    /\ last' = HelloStep("Hello", Len(hs.hellos) + 1)
    /\ UNCHANGED NotHello

\* One of the goroutines runs SyncFolder: the FileList goes to every session.
RunSyncFolder(g) ==
    /\ g \in hs.running
    /\ hs' = [hs EXCEPT
                !.running = @ \ {g},
                !.out = [s \in DOMAIN hs.out |->
                           Append(hs.out[s],
                                  [msg |-> [type |-> "FileList", folderPath |-> g.path],
                                   hello |-> g.hello])]]
    /\ last' = HelloStep("SyncFolder", g.hello)
    /\ UNCHANGED NotHello

InitHello ==
    /\ EngineFresh /\ WatcherIdle /\ StoreUnsaved /\ DiscoveryIdle
    /\ ConflictMapIdle /\ EngineNew
    /\ RedialIdle /\ NetworkIdle /\ LocksIdle /\ DaemonRunning /\ HeapIdle /\ RingEmpty /\ ReadLoopsIdle
    /\ HelloIdle
    /\ \E folders \in HelloConfigs : conf = [folders |-> folders, file |-> folders]

NextHello ==
    \/ \E s \in DOMAIN hs.out, version \in HelloVersions : ReceiveHello(s, version)
    \/ \E g \in hs.running : RunSyncFolder(g)

SpecHello == InitHello /\ [][NextHello]_vars

----------------------------------------------------------------------------
(* SpecRedial: which events make the client dial. Two peers stay reachable  *)
(* and in the registry: one announced by mDNS in every browse cycle (so the *)
(* health check never removes it), one manual.                              *)

\* Every variable but rd and the history of the last step.
NotRedial == <<evars, wvars, pvars, dvars, net, locks, down, heap, conf, ring, rl, hs, cm, life>>

RedialPeers == { "discovered", "manual" }

\* The onPeerFound callback of runDaemon / runApp: go client.Connect(address).
\* Connect returns the existing connection when there is one.
OnPeerFound(r, p) ==
    IF r.conn[p] = "none"
    THEN [r EXCEPT !.conn[p] = "dialing", !.down[p] = FALSE, !.dials[p] = @ + 1]
    ELSE r

RedialStep(op, p) == [op |-> op, peer |-> p]

\* doBrowseCycle -> handleServiceEntry: onPeerFound only for an id that is
\* not in the registry; else the entry replaces the peer (LastSeen).
BrowseEntry ==
    /\ rd.dials["discovered"] < MaxDials
    /\ rd' = IF rd.registered["discovered"] THEN rd
             ELSE OnPeerFound([rd EXCEPT !.registered["discovered"] = TRUE], "discovered")
    /\ last' = RedialStep("handleServiceEntry", "discovered")
    /\ UNCHANGED NotRedial

\* Discovery.Start: addManualPeer for the addresses of the configuration.
StartManualPeer ==
    /\ ~rd.registered["manual"]
    /\ rd' = OnPeerFound([rd EXCEPT !.registered["manual"] = TRUE], "manual")
    /\ last' = RedialStep("addManualPeer", "manual")
    /\ UNCHANGED NotRedial

\* The discovered peer is not announced for more than two minutes:
\* healthCheck deletes it from the registry (its session is not touched).
UnseenPeerRemoved ==
    /\ rd.registered["discovered"]
    /\ rd' = [rd EXCEPT !.registered["discovered"] = FALSE]
    /\ last' = RedialStep("healthCheck", "discovered")
    /\ UNCHANGED NotRedial

\* The user adds the address again on the peers screen: AddManualPeer calls
\* onPeerFound whether or not the peer is registered.
UserAddsManualPeer ==
    /\ rd.registered["manual"]
    /\ rd.dials["manual"] < MaxDials
    /\ rd' = OnPeerFound(rd, "manual")
    /\ last' = RedialStep("AddManualPeer", "manual")
    /\ UNCHANGED NotRedial

\* Client.Connect: the dial succeeds, the connection is registered and its
\* read loop started.
DialSucceeds(p) ==
    /\ rd.conn[p] = "dialing"
    /\ rd' = [rd EXCEPT !.conn[p] = "open"]
    /\ last' = RedialStep("connected", p)
    /\ UNCHANGED NotRedial

\* Client.Connect: the dial fails; the error is returned to the callback,
\* which logs it.
DialFails(p) ==
    /\ rd.conn[p] = "dialing"
    /\ rd' = [rd EXCEPT !.conn[p] = "none", !.down[p] = TRUE]
    /\ last' = RedialStep("dial failed", p)
    /\ UNCHANGED NotRedial

\* ClientConnection.readLoop: a read error; the deferred function deletes
\* the connection from the table and calls onDisconnect, which logs.
SessionLost(p) ==
    /\ rd.conn[p] = "open"
    /\ rd' = [rd EXCEPT !.conn[p] = "none", !.down[p] = TRUE]
    /\ last' = RedialStep("session lost", p)
    /\ UNCHANGED NotRedial

InitRedial ==
    /\ EngineFresh /\ WatcherIdle /\ StoreUnsaved /\ DiscoveryIdle /\ ExtrasIdle

NextRedial ==
    \/ BrowseEntry
    \/ StartManualPeer
    \/ UnseenPeerRemoved
    \/ UserAddsManualPeer
    \/ \E p \in RedialPeers : DialSucceeds(p)
    \/ \E p \in RedialPeers : DialFails(p)
    \/ \E p \in RedialPeers : SessionLost(p)

\* The browse loop, Start and every dial goroutine keep running; the user
\* and the network need do nothing.
SpecRedial ==
    /\ InitRedial /\ [][NextRedial]_vars
    /\ WF_vars(BrowseEntry)
    /\ WF_vars(StartManualPeer)
    /\ \A p \in RedialPeers : WF_vars(DialSucceeds(p) \/ DialFails(p))

----------------------------------------------------------------------------
(* SpecResolve: SpecPrompt with the user resolving open conflicts from the  *)
(* conflict screen. Alpha's goroutines keep running; the peer and the user  *)
(* need do nothing.                                                         *)

\* The resolutions the conflict screen offers.
UserResolutions ==
    { ResolutionKeepLocal, ResolutionKeepRemote, ResolutionKeepBoth, ResolutionSkip }

ResolveStep(n, conflict, resolution, err) ==
    [node |-> n, msg |-> [type |-> ""], op |-> "ResolveConflict", conflict |-> conflict,
     resolution |-> resolution, err |-> err]

\* Engine.ResolveConflict(conflictID, resolution): GetConflict, then
\* ConflictDetector.ResolveConflict; an unknown id is an error.
UserResolve(n, id, resolution) ==
    /\ id \in DOMAIN conflicts[n]
    /\ LET r == ResolveConflict(n, [fs |-> fs[n], pending |-> pending[n],
                                    conflicts |-> conflicts[n]],
                                conflicts[n][id], resolution, now)
       IN /\ fs' = [fs EXCEPT ![n] = r.w.fs]
          /\ pending' = [pending EXCEPT ![n] = r.w.pending]
          /\ conflicts' = [conflicts EXCEPT ![n] = r.w.conflicts]
          /\ last' = ResolveStep(n, conflicts[n][id], resolution, r.err)
    /\ UNCHANGED <<cfg, userlog, now, store, activities, evq, open, chan, syncq, budget>>
    /\ UNCHANGED ovars
    /\ Bounded'

\* The peer only announces its a.txt; it answers no request by itself.
ResolveMessages == { msg \in PromptMessages : msg.type = "FileList" }

NextResolve ==
    \/ \E s \in Sessions, msg \in ResolveMessages : Inject(s, msg)
    \/ \E s \in Sessions : Drain(s)
    \/ Flush("Alpha")
    \/ HandleFileEvent("Alpha")
    \/ \E s \in Sessions : HandleFileList("Alpha", s)
    \/ \E id \in DOMAIN conflicts["Alpha"], resolution \in UserResolutions :
          UserResolve("Alpha", id, resolution)

SpecResolve ==
    /\ InitPrompt /\ [][NextResolve]_vars
    /\ WF_vars(Flush("Alpha"))
    /\ WF_vars(HandleFileEvent("Alpha"))
    /\ \A s \in Sessions : WF_vars(HandleFileList("Alpha", s))

----------------------------------------------------------------------------
(* SpecMutual: two devices that each found the other through discovery, so  *)
(* that each dials the other: they can be joined by the session Alpha       *)
(* dialed and by the session Beta dialed at once. The engine is Alpha's;    *)
(* the peer reads what it is sent.                                          *)

NextMutual ==
    \/ \E r \in SyncPaths : UserWrite("Alpha", r, UserContent("Alpha"), now + 1)
    \/ \E r \in SyncPaths : UserDelete("Alpha", r)
    \/ \E s \in Sessions : Connect(s)
    \/ Flush("Alpha")
    \/ HandleFileEvent("Alpha")
    \/ SyncFolder("Alpha")
    \/ \E s \in Sessions : HandleHello("Alpha", s)
    \/ \E s \in Sessions : Drain(s)

SpecMutual == Init /\ [][NextMutual]_vars

----------------------------------------------------------------------------
(* SpecPeerPaths: the engine of Alpha against a peer that chooses the       *)
(* folderPath, folderName and relPath of its frames freely. Alpha has a.txt *)
(* in its shared folder and a key file in its home directory, outside it.   *)

MaxPathFrames == 2

HomeOfAlpha == <<Name("Users", ""), Name("a", "")>>

KeyFile == <<Name("id", ".key")>>

\* A relative path that climbs out of the folder it is joined to.
EscapePath == <<DotDot>> \o KeyFile

PathMessages ==
    { FileRequestMessage(folderPath, getFolderName(folderPath), relPath) :
        folderPath \in {FolderOf("Alpha"), HomeOfAlpha}, relPath \in {PathA, EscapePath, KeyFile} }
    \cup { FileDataMessage(PeerFolder, relPath, Len(B1), 1, InfoHash(B1), B1) :
             relPath \in {PathA, EscapePath} }
    \cup { FileDeleteMessage(PeerFolder, relPath) : relPath \in {PathA, EscapePath} }

InitPeerPaths ==
    /\ now = MaxTime
    /\ cfg = [n \in Nodes |-> [direction |-> "bidirectional", strategy |-> "newest_wins"]]
    /\ fs = [n \in Nodes |->
               IF n = "Alpha"
               THEN Put(Put(EmptyMap, Join(FolderOf(n), PathA), File(V0, 0)),
                        Join(HomeOfAlpha, KeyFile), File(A1, 0))
               ELSE EmptyMap]
    /\ store = [n \in Nodes |-> InitFolder(EmptyMap, FolderOf(n), 0)]
    /\ conflicts = [n \in Nodes |-> EmptyMap]
    /\ activities = [n \in Nodes |-> <<>>]
    /\ pending = [n \in Nodes |-> EmptyMap]
    /\ evq = [n \in Nodes |-> <<>>]
    /\ open = [s \in Sessions |-> s \in Dialers]
    /\ chan = [s \in Sessions |-> [n \in Nodes |-> <<>>]]
    /\ syncq = [n \in Nodes |-> <<>>]
    /\ budget = [edits |-> [n \in Nodes |-> 0], inject |-> MaxPathFrames]
    /\ userlog = <<>>
    /\ last = NoStep
    /\ WatcherIdle
    /\ StoreUnsaved
    /\ DiscoveryIdle
    /\ ExtrasIdle

NextPeerPaths ==
    \/ \E s \in Sessions, msg \in PathMessages : Inject(s, msg)
    \/ \E s \in Sessions : Drain(s)
    \/ Flush("Alpha")
    \/ HandleFileEvent("Alpha")
    \/ \E s \in Sessions : HandleFileRequest("Alpha", s)
    \/ \E s \in Sessions : HandleFileData("Alpha", s)
    \/ \E s \in Sessions : HandleRemoteDelete("Alpha", s)

SpecPeerPaths == InitPeerPaths /\ [][NextPeerPaths]_vars

----------------------------------------------------------------------------
(* SpecConflictMap: the goroutines that reach ConflictDetector.conflicts.   *)
(* handleFileList runs on the read loop of the session the FileList came    *)
(* on, one goroutine per session; GetConflicts and ResolveConflict run on   *)
(* the goroutine of the terminal UI. The detector has no mutex: a map       *)
(* statement begins whenever its goroutine gets there. Two overlapping      *)
(* accesses of which one writes are a data race: the write may be lost or   *)
(* the runtime may end the process.                                         *)

\* Every variable but cm and the history of the last step.
NotConflictMap == <<evars, wvars, pvars, dvars, net, locks, down, heap, conf, ring, rl, hs, rd, life>>

ReadLoops == { "inbound", "outbound" }

MapGoroutines == ReadLoops \cup { "ui" }

\* The conflict ids of the model: folderPath:relPath of two files.
ConflictIds == { "Shared:a.txt", "Shared:b.txt" }

\* The goroutines other than g that are at a statement on the map.
OthersInside(g) == { o \in MapGoroutines \ {g} : cm.at[o] # <<"idle">> }

MapStep(g, did) == [node |-> g, msg |-> [type |-> ""], op |-> did]

\* A goroutine gets to a statement on the map: nothing makes it wait.
Enters(g, op, id) ==
    /\ ~cm.crashed
    /\ cm.at[g] = <<"idle">>
    /\ cm.calls[g] < MaxMapCalls
    /\ cm' = [cm EXCEPT !.at[g] = <<op, id>>, !.calls[g] = @ + 1]
    /\ last' = MapStep(g, op)
    /\ UNCHANGED NotConflictMap

\* The statement is done. A write that overlapped another access may be lost
\* or be fatal; a read that overlapped a write may be fatal.
Leaves(g, op, ids) ==
    /\ ~cm.crashed
    /\ cm.at[g][1] = op
    /\ \E outcome \in IF OthersInside(g) = {}
                      THEN { [ids |-> ids, crashed |-> FALSE] }
                      ELSE { [ids |-> ids, crashed |-> FALSE],
                             [ids |-> cm.ids, crashed |-> FALSE],
                             [ids |-> cm.ids, crashed |-> TRUE] } :
          cm' = [cm EXCEPT !.at[g] = <<"idle">>, !.ids = outcome.ids,
                           !.crashed = outcome.crashed]
    /\ last' = MapStep(g, "done")
    /\ UNCHANGED NotConflictMap

\* DetectConflict on a read loop: cd.conflicts[conflict.ID] = conflict.
DetectConflictStores(g, id) == Enters(g, "DetectConflict", id)

DetectConflictStored(g) ==
    Leaves(g, "DetectConflict", cm.ids \cup {cm.at[g][2]})

\* GetConflicts from the UI: ranges over the map.
GetConflictsRanges == Enters("ui", "GetConflicts", "")

GetConflictsReturns == Leaves("ui", "GetConflicts", cm.ids)

\* ResolveConflict from the UI, for a conflict GetConflict found:
\* delete(cd.conflicts, conflict.ID).
ResolveConflictDeletes(id) ==
    /\ id \in cm.ids
    /\ Enters("ui", "ResolveConflict", id)

ResolveConflictDeleted ==
    Leaves("ui", "ResolveConflict", cm.ids \ {cm.at["ui"][2]})

InitConflictMap ==
    /\ EngineFresh /\ WatcherIdle /\ StoreUnsaved /\ DiscoveryIdle /\ ExtrasIdle

NextConflictMap ==
    \/ \E g \in ReadLoops, id \in ConflictIds : DetectConflictStores(g, id)
    \/ \E g \in ReadLoops : DetectConflictStored(g)
    \/ GetConflictsRanges
    \/ GetConflictsReturns
    \/ \E id \in ConflictIds : ResolveConflictDeletes(id)
    \/ ResolveConflictDeleted

SpecConflictMap == InitConflictMap /\ [][NextConflictMap]_vars

----------------------------------------------------------------------------
(* SpecLifecycle: Engine.Start and Engine.Stop called again and again. The  *)
(* terminal program starts the engine, the sync toggle of the UI stops and  *)
(* starts it, and the deferred engine.Stop runs when the program returns.   *)
(* The context of the engine, the done channel of the watcher and the       *)
(* fsnotify watcher are made once, in NewEngine / NewWatcher.               *)

\* Every variable but life and the history of the last step.
NotLife == <<evars, wvars, pvars, dvars, net, locks, down, heap, conf, ring, rl, hs, rd, cm>>

LifeStep(did) == [node |-> "engine", msg |-> [type |-> ""], op |-> did]

Alive == ~life.panicked /\ ~(life.exiting /\ ~life.stopping)

\* Watcher.Start inside Engine.Start: AddFolder returns at once for a folder
\* of w.folders, else it adds the fsnotify watches (an error on a closed
\* fsnotify watcher is logged) and sets w.folders; then go processEvents.
\* Engine.Start then starts processFileEvents.
EngineStart ==
    /\ Alive /\ ~life.exiting
    /\ ~life.running /\ ~life.stopping
    /\ life.toggles < MaxToggles
    /\ life' = [life EXCEPT !.running = TRUE,
                            !.watches = IF life.folders THEN @ ELSE life.fsw = "open",
                            !.folders = TRUE,
                            !.wloop = @ + 1,
                            !.eloop = @ + 1,
                            !.toggles = @ + 1]
    /\ last' = LifeStep("Start")
    /\ UNCHANGED NotLife

\* Engine.Stop up to wg.Wait: e.cancel(), then Watcher.Stop: close(w.done),
\* which panics on a closed channel, and w.watcher.Close().
StopCalled(atExit) ==
    /\ life' = IF life.done = "closed"
               THEN [life EXCEPT !.ctx = "cancelled", !.panicked = TRUE, !.exiting = atExit]
               ELSE [life EXCEPT !.ctx = "cancelled", !.done = "closed", !.fsw = "closed",
                                 !.watches = FALSE, !.fsq = 0, !.stopping = TRUE,
                                 !.exiting = atExit]
    /\ last' = LifeStep("Stop")
    /\ UNCHANGED NotLife

\* The sync toggle of the UI switches a running engine off.
ToggleStop ==
    /\ Alive /\ ~life.exiting
    /\ life.running /\ ~life.stopping
    /\ StopCalled(FALSE)

\* The program returns: the deferred engine.Stop runs, whatever the toggle
\* did before.
DeferredStop ==
    /\ Alive /\ ~life.exiting
    /\ ~life.stopping
    /\ life.toggles > 0
    /\ StopCalled(TRUE)

\* wg.Wait returns when processFileEvents has returned; the state is saved.
StopReturns ==
    /\ ~life.panicked
    /\ life.stopping
    /\ life.eloop = 0
    /\ life' = [life EXCEPT !.stopping = FALSE, !.running = FALSE]
    /\ last' = LifeStep("stopped")
    /\ UNCHANGED NotLife

\* The user changes a file of the folder: fsnotify reports it when it holds
\* a watch on the directory.
UserChangesFile ==
    /\ Alive
    /\ life.writes < MaxFsEvents
    /\ life' = [life EXCEPT !.writes = @ + 1,
                            !.fsq = IF life.watches /\ life.fsw = "open" THEN @ + 1 ELSE @]
    /\ last' = LifeStep("write")
    /\ UNCHANGED NotLife

\* One round of the select of Watcher.processEvents: a closed w.done or a
\* closed fsnotify channel ends the goroutine, an fsnotify event becomes a
\* watcher event. Select chooses among the cases that are ready.
WatcherLoopReturns ==
    /\ Alive
    /\ life.wloop > 0
    /\ life.done = "closed" \/ life.fsw = "closed"
    /\ life' = [life EXCEPT !.wloop = @ - 1]
    /\ last' = LifeStep("processEvents returns")
    /\ UNCHANGED NotLife

WatcherLoopEmits ==
    /\ Alive
    /\ life.wloop > 0
    /\ life.fsq > 0
    /\ life' = [life EXCEPT !.fsq = @ - 1, !.events = @ + 1]
    /\ last' = LifeStep("processEvents emits")
    /\ UNCHANGED NotLife

\* One round of the select of Engine.processFileEvents: a cancelled context
\* ends the goroutine, a watcher event is handled.
EngineLoopReturns ==
    /\ Alive
    /\ life.eloop > 0
    /\ life.ctx = "cancelled"
    /\ life' = [life EXCEPT !.eloop = @ - 1]
    /\ last' = LifeStep("processFileEvents returns")
    /\ UNCHANGED NotLife

EngineLoopHandles ==
    /\ Alive
    /\ life.eloop > 0
    /\ life.events > 0
    /\ life' = [life EXCEPT !.events = @ - 1, !.delivered = @ + 1]
    /\ last' = LifeStep("handleFileEvent")
    /\ UNCHANGED NotLife

InitLifecycle ==
    /\ EngineFresh /\ WatcherIdle /\ StoreUnsaved /\ DiscoveryIdle /\ ExtrasIdle

NextLifecycle ==
    \/ EngineStart
    \/ ToggleStop
    \/ DeferredStop
    \/ StopReturns
    \/ UserChangesFile
    \/ WatcherLoopReturns
    \/ WatcherLoopEmits
    \/ EngineLoopReturns
    \/ EngineLoopHandles

SpecLifecycle == InitLifecycle /\ [][NextLifecycle]_vars

----------------------------------------------------------------------------
(* Scenario claims on the two-device system *)

FileAt(n, relPath) == fs[n][Join(FolderOf(n), relPath)]

HasFile(n, relPath) == Join(FolderOf(n), relPath) \in DOMAIN fs[n]

Holds(n, relPath, c, t) ==
    /\ HasFile(n, relPath)
    /\ FileAt(n, relPath).content = c
    /\ FileAt(n, relPath).mtime = t

Baseline(n, relPath) == GetFileState(store[n], FolderOf(n), relPath)

\* The exchange has run to its end: a session is established and nothing is
\* left to debounce, to handle, to scan or to deliver.
Quiescent ==
    /\ \E s \in Sessions : open[s]
    /\ \A s \in Sessions, n \in Nodes : chan[s][n] = <<>>
    /\ \A n \in Nodes : pending[n] = EmptyMap /\ evq[n] = <<>> /\ syncq[n] = <<>>

\* Alpha wrote a.txt at T1 and Beta wrote it later, at T2.
BothEdited(T1, T2) ==
    userlog = << UserOp("Alpha", "write", PathA, A1, T1),
                 UserOp("Beta", "write", PathA, B1, T2) >>

\* C1: under NewestWins, when both devices change a.txt from a common baseline
\* and Beta's change is the newer one, Beta's file is never overwritten, and
\* once the exchange has run both devices hold Beta's content under a.txt
\* and both baselines carry its hash.
C1_NewestWinsConverges ==
    \A T1, T2 \in 0..MaxTime :
        (BothEdited(T1, T2) /\ T2 > T1 /\ GetConflictStrategy("Alpha") = "newest_wins") =>
            /\ Holds("Beta", PathA, B1, T2)
            /\ Quiescent =>
                  /\ Holds("Alpha", PathA, B1, T2)
                  /\ \A n \in Nodes :
                        Baseline(n, PathA).ok /\ Baseline(n, PathA).state.hash = Sha256(B1)

ConflictCopies(n) == {p \in DOMAIN fs[n] : Last(p).conf # <<>>}

\* C2: under KeepBoth, when both devices change a.txt from a common baseline,
\* Beta creates no conflict copy and never loses a.txt, and once the exchange
\* has run Alpha holds Beta's content under a.txt and its own content under a
\* conflict name, while Beta holds only its own content under a.txt.
C2_KeepBothPreservesBoth ==
    \A T1, T2 \in 0..MaxTime :
        (BothEdited(T1, T2) /\ GetConflictStrategy("Alpha") = "keep_both") =>
            /\ ConflictCopies("Beta") = {}
            /\ HasFile("Beta", PathA) /\ FileAt("Beta", PathA).content = B1
            /\ Quiescent =>
                  /\ HasFile("Alpha", PathA) /\ FileAt("Alpha", PathA).content = B1
                  /\ \E p \in ConflictCopies("Alpha") :
                        /\ Last(p).stem = "a" /\ Last(p).ext = ".txt"
                        /\ Last(p).conf[1] = DeviceName("Alpha")
                        /\ fs["Alpha"][p].content = A1
                  /\ DOMAIN fs["Beta"] = {Join(FolderOf("Beta"), PathA)}

\* C5: when Alpha's user deletes a.txt and Beta's user does nothing, the file
\* is never re-created on Alpha, and once the exchange has run Beta has
\* neither the file nor a record of it.
C5_DeletePropagates ==
    (userlog = << UserOp("Alpha", "delete", PathA, Empty, 0) >>) =>
        /\ ~HasFile("Alpha", PathA)
        /\ Quiescent => ~HasFile("Beta", PathA) /\ ~Baseline("Beta", PathA).ok

----------------------------------------------------------------------------
(* Conflict detection and resolution *)

\* What a peer may announce about a path.
RemoteFiles ==
    { ConflictFile(Len(c), t, InfoHash(c), "") : c \in PeerContents, t \in 0..MaxTime }

\* DetectConflict against its description: a conflict is returned exactly when
\* the local file exists (and, if hashable is asked for, can be read), its
\* content hash differs from the remote hash, and there is no baseline or both
\* hashes differ from the baseline hash; otherwise the open set is untouched.
DetectsExactly(hashable) ==
    \A relPath \in AllPaths, remoteFile \in RemoteFiles :
        LET folderPath == FolderOf("Alpha")
            fullPath == Join(folderPath, relPath)
            d == DetectConflict(fs["Alpha"], store["Alpha"], conflicts["Alpha"],
                                folderPath, relPath, remoteFile)
            localHash == Sha256(fs["Alpha"][fullPath].content)
            base == GetFileState(store["Alpha"], folderPath, relPath)
            expected ==
                /\ fullPath \in DOMAIN fs["Alpha"]
                /\ hashable => fs["Alpha"][fullPath].readable
                /\ localHash # remoteFile.hash
                /\ \/ ~base.ok
                   \/ localHash # base.state.hash /\ remoteFile.hash # base.state.hash
        IN /\ d.found <=> expected
           /\ d.found => /\ d.conflict.remoteFile = remoteFile
                         /\ d.conflict.localFile.hash = localHash
                         /\ d.conflicts = Put(conflicts["Alpha"],
                                              ConflictID(folderPath, relPath), d.conflict)
           /\ ~d.found => d.conflicts = conflicts["Alpha"]

\* C3: DetectConflict returns a conflict exactly when the local file exists,
\* its hash differs from the remote hash, and either there is no baseline or
\* both hashes differ from the baseline hash; otherwise it returns none and
\* adds nothing to the open conflict set.
C3_DetectConflictExact == DetectsExactly(FALSE)

\* C3, amended: the same, where "the local file exists" is read as "the local
\* file exists and its hash can be computed".
C3_DetectConflictExactWhenHashable == DetectsExactly(TRUE)

\* C3 witness: Alpha has handled a FileList whose entry conflicts with its
\* a.txt, and under the prompt strategy the conflict is left open.
C3_Witness ==
    /\ last.node = "Alpha" /\ last.msg.type = "FileList"
    /\ ConflictID(FolderOf("Alpha"), PathA) \in DOMAIN conflicts["Alpha"]

\* C4: under NewestWins a detected conflict resolves to the side with the
\* later modification time, and to the local side when the times are equal,
\* in which case handling the FileList entry sends no FileRequest.
C4_NewestWinsTiesKeepLocal ==
    GetConflictStrategy("Alpha") = "newest_wins" =>
        \A e \in PeerEntries :
            LET folderPath == FolderOf("Alpha")
                remoteFile == ConflictFile(e.size, e.modTime, e.hash, "")
                d == DetectConflict(fs["Alpha"], store["Alpha"], conflicts["Alpha"],
                                    folderPath, e.relPath, remoteFile)
                w == [fs |-> fs["Alpha"], pending |-> pending["Alpha"],
                      conflicts |-> d.conflicts]
                local == fs["Alpha"][Join(folderPath, e.relPath)]
            IN d.found =>
                 /\ AutoResolve("Alpha", w, d.conflict, now).resolution =
                       IF local.mtime >= e.modTime THEN ResolutionKeepLocal
                       ELSE ResolutionKeepRemote
                 /\ local.mtime = e.modTime =>
                       handleFileList("Alpha", FileListMessage(PeerFolder, <<e>>), "").out = <<>>

----------------------------------------------------------------------------
(* Direction policy *)

\* The frames device n has sent and its peer has not read yet.
Outgoing(n) ==
    UNION { {chan[s][Peer(n)][i] : i \in 1..Len(chan[s][Peer(n)])} : s \in Sessions }

\* C6: a device configured receive_only never sends FileData or FileDelete.
C6_ReceiveOnlyNeverSends ==
    \A n \in Nodes :
        cfg[n].direction = "receive_only" =>
            \A m \in Outgoing(n) : m.type \notin {"FileData", "FileDelete"}

\* The step takes the frame at the head of session s off the queue of device n.
Handles(n, s) == open[s] /\ chan[s][n] # <<>> /\ chan'[s][n] = Tail(chan[s][n])

\* C7: a device configured send_only that handles an incoming FileList,
\* FileData or FileDelete sends nothing (so no FileRequest), leaves its files
\* alone (so its watcher has nothing new to report), and leaves its state
\* store, its open conflicts and its activity log unchanged.
C7_SendOnlyNeverReceives ==
    [][ \A n \in Nodes, s \in Sessions :
          ( /\ cfg[n].direction = "send_only"
            /\ Handles(n, s)
            /\ Head(chan[s][n]).type \in {"FileList", "FileData", "FileDelete"} ) =>
              /\ \A s2 \in Sessions : chan'[s2][Peer(n)] = chan[s2][Peer(n)]
              /\ fs'[n] = fs[n]
              /\ pending'[n] = pending[n]
              /\ store'[n] = store[n]
              /\ conflicts'[n] = conflicts[n]
              /\ activities'[n] = activities[n] ]_vars

\* C7 witness: send_only Alpha has just handled a FileList, FileData or
\* FileDelete for its own folder.
C7_Witness ==
    /\ cfg["Alpha"].direction = "send_only"
    /\ last.node = "Alpha"
    /\ last.msg.type \in {"FileList", "FileData", "FileDelete"}
    /\ findLocalFolderByName("Alpha", last.msg.folderName) # NoFolder

----------------------------------------------------------------------------
(* Ignore rules *)

\* The store of device n holds a record for the path.
HasRecord(n, path) ==
    \E folderPath \in DOMAIN store[n] :
        \E relPath \in DOMAIN store[n][folderPath].files : Join(folderPath, relPath) = path

\* The watcher of device n has emitted or is about to emit an event for the path.
HasEvent(n, path) ==
    \/ path \in DOMAIN pending[n]
    \/ \E i \in 1..Len(evq[n]) : evq[n][i].path = path

\* A FileList sent by device n lists the path.
Listed(n, path) ==
    \E m \in Outgoing(n) :
        /\ m.type = "FileList"
        /\ \E i \in 1..Len(m.files) : Join(m.folderPath, m.files[i].relPath) = path

AbsPaths(n) == {Join(FolderOf(n), relPath) : relPath \in AllPaths}

\* C8: for every path whose base name matches an ignore glob or that has an
\* exclude prefix there is no watcher event, no FileList entry and no record
\* in the state store.
C8_IgnoreClosure ==
    \A path \in AbsPaths("Alpha") :
        ShouldIgnore("Alpha", path) =>
            /\ ~HasEvent("Alpha", path)
            /\ ~Listed("Alpha", path)
            /\ ~HasRecord("Alpha", path)

\* The path is ignored, or lies below a directory of the folder that is.
IgnoredFile(n, folderPath, path) ==
    \E k \in (Len(folderPath) + 1)..Len(path) : ShouldIgnore(n, SubSeq(path, 1, k))

\* C9: no FileData is ever sent for a file whose base name matches an ignore
\* glob, that lies under an ignored directory, or that has an exclude prefix.
C9_NoFileDataForIgnored ==
    \A m \in Outgoing("Alpha") :
        m.type = "FileData" =>
            ~IgnoredFile("Alpha", m.folderPath, Join(m.folderPath, m.relPath))

\* C10: when device n handles a FileList with an entry for r whose hash is the
\* hash of its local file at r, it sends no frame naming r, leaves the file
\* alone, and changes neither the record nor the open conflict of r.
C10_HashEqualityNoOp ==
    [][ \A n \in Nodes, s \in Sessions :
          (Handles(n, s) /\ Head(chan[s][n]).type = "FileList") =>
            LET m == Head(chan[s][n])
                folderPath == findLocalFolderByName(n, m.folderName)
            IN folderPath # NoFolder =>
                 \A i \in 1..Len(m.files) :
                   LET relPath == m.files[i].relPath
                       path == Join(folderPath, relPath)
                       id == ConflictID(folderPath, relPath)
                   IN ( /\ path \in DOMAIN fs[n]
                        /\ HashFile(fs[n], path).hash = m.files[i].hash ) =>
                          /\ \A s2 \in Sessions :
                               \A j \in (Len(chan[s2][Peer(n)]) + 1)..Len(chan'[s2][Peer(n)]) :
                                   chan'[s2][Peer(n)][j].relPath # relPath
                          /\ path \in DOMAIN fs'[n] /\ fs'[n][path] = fs[n][path]
                          /\ DOMAIN fs'[n] = DOMAIN fs[n]
                          /\ (path \in DOMAIN pending'[n]) <=> (path \in DOMAIN pending[n])
                          /\ GetFileState(store'[n], folderPath, relPath) =
                               GetFileState(store[n], folderPath, relPath)
                          /\ (id \in DOMAIN conflicts'[n]) <=> (id \in DOMAIN conflicts[n]) ]_vars

\* C10 witness: Alpha has just handled a FileList whose entry carries the hash
\* of the content Alpha holds at that path.
C10_Witness ==
    /\ last.node = "Alpha" /\ last.msg.type = "FileList"
    /\ LET folderPath == findLocalFolderByName("Alpha", last.msg.folderName)
       IN /\ folderPath # NoFolder
          /\ \E i \in 1..Len(last.msg.files) :
               LET path == Join(folderPath, last.msg.files[i].relPath)
               IN /\ path \in DOMAIN fs["Alpha"]
                  /\ HashFile(fs["Alpha"], path).ok
                  /\ HashFile(fs["Alpha"], path).hash = last.msg.files[i].hash

----------------------------------------------------------------------------
(* Local changes and the baseline *)

\* The step takes the event at the head of the watcher channel of device n.
HandlesEvent(n) == evq[n] # <<>> /\ evq'[n] = Tail(evq[n])

\* The frames device n puts on session s in this step.
NewFrames(n, s) ==
    {chan'[s][Peer(n)][j] : j \in (Len(chan[s][Peer(n)]) + 1)..Len(chan'[s][Peer(n)])}

\* C11: when a local Create/Modify is handled and its FileData is sent, the
\* record of the file carries the SHA-256 of exactly the bytes in that
\* FileData, whatever the content (zero-length included) and even if the file
\* was written between hashing and reading.
C11_BaselineAfterSend ==
    [][ \A n \in Nodes :
          (HandlesEvent(n) /\ Head(evq[n]).type \in {EventCreate, EventModify}) =>
            \A s \in Sessions : \A m \in NewFrames(n, s) :
                m.type = "FileData" =>
                    LET rec == GetFileState(store'[n], m.folderPath, m.relPath)
                    IN rec.ok /\ rec.state.hash = Sha256(m.data) ]_vars

\* C12: when the file of a local Create/Modify cannot be stat'ed, hashed or
\* read while the event is handled, the baseline of the file is left as it
\* was and no FileData is sent.
C12_BaselineOnlyAfterSend ==
    [][ \A n \in Nodes :
          ( /\ HandlesEvent(n)
            /\ Head(evq[n]).type \in {EventCreate, EventModify}
            /\ fs'[n] = fs[n]
            /\ \/ Head(evq[n]).path \notin DOMAIN fs[n]
               \/ ~HashFile(fs[n], Head(evq[n]).path).ok
               \/ ~ReadFile(fs[n], Head(evq[n]).path).ok ) =>
              /\ GetFileState(store'[n], Head(evq[n]).folderPath, Head(evq[n]).relPath) =
                   GetFileState(store[n], Head(evq[n]).folderPath, Head(evq[n]).relPath)
              /\ \A s \in Sessions : \A m \in NewFrames(n, s) : m.type # "FileData" ]_vars

----------------------------------------------------------------------------
(* Remote deletes *)

\* C13: handling a FileDelete for a file that is already absent changes
\* nothing: not the files, not the folder's records or its updated timestamp
\* in the state store, not the activity log.  (A second FileDelete for the
\* same path is such a step, so twice is then the same as once.)
C13_DeleteIdempotent ==
    [][ \A n \in Nodes, s \in Sessions :
          (Handles(n, s) /\ Head(chan[s][n]).type = "FileDelete") =>
            LET del == Head(chan[s][n])
                localFolderPath == findLocalFolderByName(n, del.folderName)
            IN ( /\ localFolderPath # NoFolder
                 /\ Join(localFolderPath, del.relPath) \notin DOMAIN fs[n] ) =>
                   /\ fs'[n] = fs[n]
                   /\ store'[n] = store[n]
                   /\ activities'[n] = activities[n] ]_vars

----------------------------------------------------------------------------
(* Debounce *)

\* C14: any two FileEvents the watcher emits for the same path are at least
\* the debounce delay (100 ms) apart, whatever the arrival pattern.
C14_DebounceCoalescing ==
    \A i, j \in 1..Len(wlog.emitted) :
        (i < j /\ wlog.emitted[i].path = wlog.emitted[j].path) =>
            wlog.emitted[j].time - wlog.emitted[i].time >= DebounceTicks

\* The serial of the last notification for the path that passed the filters
\* and arrived before the j-th emitted event was flushed.
LastBefore(j) ==
    LET e == wlog.emitted[j]
        S == {k \in 1..Len(wlog.arrivals) :
                /\ wlog.arrivals[k].path = e.path
                /\ wlog.arrivals[k].op \in {"Create", "Write", "Remove", "Rename"}
                /\ wlog.arrivals[k].flushes < e.flush }
    IN CHOOSE k \in S : \A k2 \in S : k2 <= k

----------------------------------------------------------------------------
(* Persistence claims *)

\* C16 (RoundTripRecord): a store loaded from the state directory directly
\* after Save has written it there holds the saved store's folders, record
\* for record, also when two folder paths have the same FNV-1a hash.
C16_RoundTripRecord ==
    (last = StoreStep("Alpha", "Load", TRUE)) => restored = store["Alpha"]

----------------------------------------------------------------------------
(* Discovery claims *)

\* The peers a health tick at time t is to remove.
Stale(reg, t) == {id \in DOMAIN reg : ~reg[id].manual /\ t - reg[id].lastSeen > PeerTimeout}

\* The onPeerLost calls a step adds.
NewlyLost == SubSeq(dlog'.lost, Len(dlog.lost) + 1, Len(dlog'.lost))

\* C17: a health tick removes exactly the non-manual peers last seen more than
\* 120 s ago, calls onPeerLost exactly once for each of them and for no other
\* peer, and leaves every manual peer in the registry.
C17_HealthTickRemovesStale ==
    [][ (last' = HealthStep /\ dlog'.ticks = dlog.ticks + 1) =>
          /\ DOMAIN peers' = DOMAIN peers \ Stale(peers, now)
          /\ \A id \in DOMAIN peers' : peers'[id] = peers[id]
          /\ \A id \in DOMAIN peers : peers[id].manual => id \in DOMAIN peers'
          /\ Len(NewlyLost) = Cardinality(Stale(peers, now))
          /\ \A id \in Stale(peers, now) : \E i \in 1..Len(NewlyLost) : NewlyLost[i].id = id
      ]_vars

\* A tick has just removed a peer and kept a manual peer as long unseen.
C17_Witness ==
    /\ last = HealthStep
    /\ \E i \in 1..Len(dlog.lost) : dlog.lost[i].time = now
    /\ \E id \in DOMAIN peers : peers[id].manual /\ now - peers[id].lastSeen > PeerTimeout

----------------------------------------------------------------------------
(* Prompt claims *)

\* The file a device holds at a path, or that it holds none.
FileOrNone(n, path) == IF path \in DOMAIN fs[n] THEN <<fs[n][path]>> ELSE <<>>

\* The FileRequests for a path among the frames a step of n puts on a session.
RequestsFor(n, s, relPath) ==
    {m \in NewFrames(n, s) : m.type = "FileRequest" /\ m.relPath = relPath}

\* C18: under strategy prompt, the step that detects a conflict for (f, r)
\* puts it in the open set and sends no FileRequest for r, and while the
\* conflict is open no remote message handled changes the local file at (f, r).
C18_PromptKeepsLocal ==
    [][ /\ \A id \in DOMAIN conflicts'["Alpha"] \ DOMAIN conflicts["Alpha"] :
             \A s \in Sessions : RequestsFor("Alpha", s, conflicts'["Alpha"][id].relPath) = {}
        /\ \A id \in DOMAIN conflicts["Alpha"] \cap DOMAIN conflicts'["Alpha"] :
             LET c == conflicts["Alpha"][id]
             IN (last'.node = "Alpha" /\ last'.msg.type # "") =>
                  FileOrNone("Alpha", Join(c.folderPath, c.relPath))' =
                  FileOrNone("Alpha", Join(c.folderPath, c.relPath))
      ]_vars

----------------------------------------------------------------------------
(* Framing claims *)

\* C19: WriteMessage returns an error and writes nothing for every message
\* whose JSON is longer than 64 MiB, lengths of 2^32 and more included, and
\* ReadMessage rejects every frame whose prefix is over 64 MiB, which ends
\* the session's read loop.
C19_NoOversizeFrame ==
    /\ ("op" \in DOMAIN last /\ last.op = "Write" /\ Greater(last.len, MaxMessageSize)) =>
         (last.err /\ last.bytes = <<>>)
    /\ ("op" \in DOMAIN last /\ last.op = "Read"
          /\ Greater(last.frame.prefix, MaxMessageSize)) =>
         (last.err /\ ~open[last.session])

\* The frame just read is a protocol error: its prefix is over the limit, its
\* body is not the JSON of a message, or its payload does not decode.
ProtocolError(step) ==
    /\ "op" \in DOMAIN step
    /\ step.op = "Read"
    /\ \/ Greater(step.frame.prefix, MaxMessageSize)
       \/ ~step.frame.json
       \/ ~step.frame.msg.decodes

\* C20: a protocol error on a session ends its read loop and takes it out of
\* the open set, and changes no other session and nothing of the engine.
C20_ProtocolErrorEndsSession ==
    [][ (ProtocolError(last') /\ open[last'.session]
           /\ chan[last'.session]["Alpha"] # <<>>
           /\ chan'[last'.session]["Alpha"] = Tail(chan[last'.session]["Alpha"])) =>
          /\ ~open'[last'.session]
          /\ \A s \in Sessions \ {last'.session} : open'[s] = open[s] /\ chan'[s] = chan[s]
          /\ UNCHANGED <<fs, store, conflicts, activities, pending, evq, syncq>>
      ]_vars

----------------------------------------------------------------------------
(* Session claims *)

\* The connection is in the table of its manager.
Registered(id) ==
    \/ id \in net.server
    \/ \E a \in DOMAIN net.client : net.client[a] = id

\* C21: a session that has ended (its read loop has returned) has had
\* onDisconnect called exactly once, has its transport closed and is not in
\* the table of its manager, whether it is a server's or a client's session.
C21_SessionEndsOnce ==
    \A id \in 1..Len(net.conns) :
       net.conns[id].loop = "ended" =>
          /\ net.conns[id].disconnects = 1
          /\ net.conns[id].closed
          /\ ~Registered(id)

\* The client's connections to an address that are live: not closed, and
\* with their read loop running.
Live(address) ==
    {id \in 1..Len(net.conns) :
       /\ net.conns[id].kind = "client"
       /\ net.conns[id].address = address
       /\ ~net.conns[id].closed
       /\ net.conns[id].loop = "running"}

\* C22: for every address there is at most one live connection of the client,
\* the table's entry of the address, if any, is that connection, and a live
\* connection is not without its entry.
C22_OneLivePerAddress ==
    \A a \in Addresses :
       /\ Cardinality(Live(a)) <= 1
       /\ a \in DOMAIN net.client => net.client[a] \in Live(a)
       /\ Live(a) # {} => a \in DOMAIN net.client

----------------------------------------------------------------------------
(* Locking claims *)

\* C23: a socket write, a file write or a call of onPeerLost is never done
\* by a goroutine that holds the lock of a connection table, of the registry
\* or of the state store.
C23_NoLockAcrossIO ==
    ("held" \in DOMAIN last /\ last.op \in {"socket write", "file write", "onPeerLost"}) =>
        last.held = {}

\* C24: the state is saved only after every session is closed and every read
\* loop has ended, and no FileData or FileDelete handler changes the state
\* store after the save.
C24_SaveAfterSessions ==
    "saved" \in DOMAIN last =>
        /\ (last.op = "save" => last.open = {})
        /\ (last.op = "receive" => ~last.saved)

\* C25: what GetFolderState or GetAllFiles returned is a copy: no later
\* UpdateFileState or RemoveFileState changes the value a caller holds, and no
\* change a caller makes through the value it holds changes the store.
C25_ReadersReturnCopies ==
    "moved" \in DOMAIN last =>
        /\ (last.op \in {"UpdateFileState", "RemoveFileState"} => last.moved = {})
        /\ (last.by > 0 => ~last.store)

\* C26: the configuration never holds two distinct enabled folders with the
\* same base name, so an incoming folder name resolves to at most one local folder.
C26_UniqueBaseNames ==
    \A folderName \in {Base(path) : path \in Directories} :
        \A i, j \in CandidatesByName(conf.folders, folderName) :
            conf.folders[i].path = conf.folders[j].path

\* The smaller of two numbers.
Smaller(a, b) == IF a < b THEN a ELSE b

\* C27: the activity log never holds more than 100 entries and is ordered
\* newest first (the entries are the newest ones added, the latest at the
\* head); GetActivities(limit) returns the min(limit, length) newest entries
\* in that order, and all of them when limit is zero or negative.
C27_ActivityRing ==
    /\ Len(ring.log) <= 100
    /\ Len(ring.log) = Smaller(ring.added, 100)
    /\ \A i \in 1 .. Len(ring.log) : ring.log[i].at = ring.added - i + 1
    /\ ("limit" \in DOMAIN last /\ last.op = "GetActivities") =>
           /\ Len(ring.result) = (IF last.limit <= 0 THEN Len(ring.log)
                                  ELSE Smaller(last.limit, Len(ring.log)))
           /\ \A i \in 1 .. Len(ring.result) : ring.result[i] = ring.log[i]

\* The log was trimmed, and GetActivities answered a limit below its length.
C27_Witness ==
    /\ ring.added > 100
    /\ Len(ring.log) = 100
    /\ "limit" \in DOMAIN last /\ last.op = "GetActivities" /\ last.limit = 2
    /\ Len(ring.result) = 2
    /\ ring.result[1].at = ring.added

\* C28: onPeerFound is called exactly when the peer added has an id that is
\* not in the registry (first discovery, a manual entry, re-discovery after
\* eviction), and is not called when a peer in the registry is seen or added again.
C28_FoundExactlyOnNew ==
    "fired" \in DOMAIN last => (last.fired <=> ~last.known)

\* Device n has handled the Hello of every session: none is still to be read.
HelloReceived(n) ==
    \A s \in Sessions : \A i \in 1 .. Len(chan[s][n]) : chan[s][n][i].type # "Hello"

\* C29: after the Hello of the peer (deviceName N) was received on the
\* session, every baseline record written for a FileData received on it has
\* syncedFrom = N, and the activity added for it has peerName = N.
C29_SyncedFromIsHelloName ==
    [][ \A n \in Nodes :
          ( /\ "msg" \in DOMAIN last'
            /\ last'.node = n
            /\ last'.msg.type = "FileData"
            /\ HelloReceived(n)
            /\ Len(activities'[n]) > Len(activities[n]) ) =>
              LET m == last'.msg
                  rec == GetFileState(store'[n], findLocalFolderByName(n, m.folderName),
                                      m.relPath)
              IN /\ rec.ok
                 /\ rec.state.syncedFrom = DeviceName(Peer(n))
                 /\ Head(activities'[n]).peerName = DeviceName(Peer(n)) ]_vars

\* The FileData m gives device n back what n sent: n's baseline for the path
\* is its own (syncedFrom is n's name) with the hash of m, and the file on
\* n's disk has the bytes of m.
IsEcho(n, m) ==
    LET localFolderPath == findLocalFolderByName(n, m.folderName)
        rec == GetFileState(store[n], localFolderPath, m.relPath)
        fullPath == Join(localFolderPath, m.relPath)
    IN /\ localFolderPath # NoFolder
       /\ rec.ok
       /\ rec.state.syncedFrom = DeviceName(n)
       /\ rec.state.hash = m.hash
       /\ fullPath \in DOMAIN fs[n]
       /\ fs[n][fullPath].content = m.data

\* C30: a FileData that comes back to the device that sent the file (its
\* peer applied it and the peer's watcher broadcast it again) makes no
\* filesystem write there: no new watcher event, so the exchange stops.
C30_NoEchoWrite ==
    [][ \A n \in Nodes, s \in Sessions :
          ( /\ Next1(n, s, "FileData")
            /\ IsEcho(n, Head(chan[s][n]))
            /\ last' = Handled(n, Head(chan[s][n])) ) =>
              /\ fs'[n] = fs[n]
              /\ pending'[n] = pending[n] ]_vars

\* C31: when an entry of a received FileList has a hash different from the
\* hash of the local file and no conflict is detected (there is a baseline and
\* only one side changed against it), exactly one FileRequest for the path is
\* sent, whatever the two modification times are.
C31_NoConflictRequests ==
    \A e \in PeerEntries :
        LET folderPath == FolderOf("Alpha")
            localPath == Join(folderPath, e.relPath)
            remoteFile == ConflictFile(e.size, e.modTime, e.hash, "")
            d == DetectConflict(fs["Alpha"], store["Alpha"], conflicts["Alpha"],
                                folderPath, e.relPath, remoteFile)
            known == GetFileState(store["Alpha"], folderPath, e.relPath)
            fileList == FileListMessage(PeerFolder, <<e>>)
        IN ( /\ CanReceive("Alpha")
             /\ localPath \in DOMAIN fs["Alpha"]
             /\ HashFile(fs["Alpha"], localPath).ok
             /\ HashFile(fs["Alpha"], localPath).hash # e.hash
             /\ known.ok
             /\ ~d.found ) =>
               handleFileList("Alpha", fileList, "").out =
                   << FileRequestMessage(fileList.folderPath, fileList.folderName, e.relPath) >>

\* C32: on every session each Ping read is answered with a Pong and never
\* handed to the engine's handler, and every other message read is handed
\* to the handler, in the order the frames were read.
C32_ReadLoopDelivers ==
    \A s \in LoopSessions :
        /\ rl.pongs[s] = Len(FramesRead(s)) - Len(NoPings(FramesRead(s)))
        /\ rl.delivered[s] = NoPings(FramesRead(s))

\* The places in what session s was sent of the messages of type type caused by Hello k.
SentFor(s, k, type) ==
    {i \in 1 .. Len(hs.out[s]) : hs.out[s][i].hello = k /\ hs.out[s][i].msg.type = type}

C34_EventuallyRedials ==
    \A p \in RedialPeers :
        (rd.registered[p] /\ rd.down[p]) ~> (rd.conn[p] # "none")

\* Alpha has a FileRequest for a.txt on its way to the peer.
RequestOnItsWay ==
    \E s \in Sessions : \E i \in 1 .. Len(chan[s]["Beta"]) :
        /\ chan[s]["Beta"][i].type = "FileRequest"
        /\ chan[s]["Beta"][i].relPath = PathA

\* The user has just resolved the open conflict on a.txt for the remote side.
ResolvedForRemote ==
    /\ "resolution" \in DOMAIN last
    /\ last.resolution \in {ResolutionKeepRemote, ResolutionKeepBoth}
    /\ ~last.err
    /\ last.conflict.relPath = PathA
    /\ \E s \in Sessions : open[s]

\* C35: when an open conflict is resolved through Engine.ResolveConflict
\* with KeepRemote or KeepBoth, a FileRequest for the path is eventually
\* sent (and the remote version applied).
C35_ResolvedRemoteIsFetched == ResolvedForRemote ~> RequestOnItsWay

\* The frames on their way to device n, over all its sessions.
FramesTo(ch, n) == Len(ch["Alpha"][n]) + Len(ch["Beta"][n])

\* The engine of n takes one coalesced event from its queue.
TakesEvent(n) == evq[n] # <<>> /\ evq'[n] = Tail(evq[n])

\* C36: for one coalesced local event the peer receives at most one FileData
\* or FileDelete, also when the two devices are joined by an inbound and an
\* outbound session.
C36_OneFramePerChange ==
    [][\A n \in Nodes :
         TakesEvent(n) => FramesTo(chan', Peer(n)) <= FramesTo(chan, Peer(n)) + 1]_vars

\* The path lies inside an enabled configured folder of the device.
InsideFolder(n, path) ==
    \E folder \in WatchedFolders(n) : IsPrefix(folder, path) /\ Len(path) > Len(folder)

\* A step leaves the files of n outside its folders as they are.
OutsideUntouched(n) ==
    \A path \in DOMAIN fs[n] \cup DOMAIN fs'[n] :
        ~InsideFolder(n, path) =>
            path \in DOMAIN fs[n] /\ path \in DOMAIN fs'[n] /\ fs'[n][path] = fs[n][path]

\* No FileData on its way to the peer was read from outside the folders of n.
OutsideUnread(n) ==
    \A s \in Sessions : \A i \in 1..Len(chan[s][Peer(n)]) :
        chan[s][Peer(n)][i].type = "FileData" =>
            InsideFolder(n, Join(chan[s][Peer(n)][i].folderPath, chan[s][Peer(n)][i].relPath))

\* C37: every file read, write or delete done in response to a FileRequest,
\* FileData or FileDelete of a peer targets a path inside an enabled
\* configured local folder, whatever folderPath, folderName and relPath the
\* peer put in the frame.
C37_PeerStaysInsideFolders ==
    [][OutsideUntouched("Alpha") /\ OutsideUnread("Alpha")']_vars

\* A message of the peer replaces a.txt of n while its content is neither
\* the incoming content nor the content of the baseline.
ReplacesUnsynced(n) ==
    LET path == Join(FolderOf(n), PathA) IN
    /\ last'.node = n /\ last'.msg.type = "FileData"
    /\ path \in DOMAIN fs[n] /\ path \in DOMAIN fs'[n]
    /\ fs'[n][path].content # fs[n][path].content
    /\ \/ ~Baseline(n, PathA).ok
       \/ Baseline(n, PathA).state.hash # InfoHash(fs[n][path].content)

\* The content a.txt of n had before the step is kept under a conflict name.
OldContentKept(n) ==
    \E copy \in ConflictCopies(n)' :
        fs'[n][copy].content = fs[n][Join(FolderOf(n), PathA)].content

\* No conflict copy of n is overwritten by the step.
CopiesKept(n) ==
    \A copy \in ConflictCopies(n) : copy \in DOMAIN fs'[n] => fs'[n][copy] = fs[n][copy]

\* C38: under KeepBoth no local version is lost: when a message of the peer
\* replaces a.txt while the local content differs from the incoming content
\* and from the baseline, the previous content exists afterwards under a
\* conflict name, and no existing conflict copy is overwritten.
C38_KeepBothLosesNothing ==
    [][\A n \in Nodes :
         /\ ReplacesUnsynced(n) => OldContentKept(n)
         /\ CopiesKept(n)]_vars

\* C39: accesses to the open conflict set are mutually exclusive: no two of
\* DetectConflict (on the read loops), ResolveConflict and GetConflicts (on
\* the UI) are at the conflict map at the same time.
C39_ConflictMapExclusive ==
    \A g \in MapGoroutines : cm.at[g] # <<"idle">> => OthersInside(g) = {}

\* The user changes a file while the engine is switched on.
ChangeWhileRunning ==
    /\ life.running /\ ~life.stopping
    /\ life'.writes = life.writes + 1

\* C40: the engine can be toggled: after Stop followed by Start a change of
\* a watched file is reported to the watcher again, and a second Stop (the
\* toggle of the UI, then the deferred Stop at exit) does not crash.
C40_EngineRestarts ==
    [][/\ ~life'.panicked
       /\ ChangeWhileRunning => life'.fsq = life.fsq + 1]_vars

====
